---- MODULE Spec2Model ----
(***************************************************************************)
(* Model of the metrics reconciliation engine of pool-report:              *)
(*   services/balancer_api.py       (BalancerAPI: gateway, snapshot        *)
(*                                   history, snapshot locator)            *)
(*   services/metrics_calculator.py (MetricsCalculator: per-pool metrics,  *)
(*                                   period deltas, portfolio aggregation) *)
(*                                                                         *)
(* Python floats are modelled as exact rationals [num, den] in lowest      *)
(* terms (den > 0), so float rounding is outside the model.  Optional      *)
(* values (None | x) are modelled as <<>> | <<x>>.                         *)
(***************************************************************************)
EXTENDS Integers, Sequences, FiniteSets, TLC

VARIABLES
    pc,                   \* position of the operation that is running
    settings,             \* config.settings as read by BalancerAPI.__init__
    request,              \* calculate_pool_metrics arguments
    upstream,             \* what the two upstream endpoints hold for the pool
    clock,                \* datetime.utcnow(), Unix seconds
    current_pool,         \* calculate_pool_metrics: current_pool (<<>> before the fetch)
    snapshots,            \* the snapshot list the running operation works on
    fifteen_days_ago_ts,  \* window start / locator target
    snapshot_15d_ago,     \* locator result: <<>> is None
    pool_result,          \* outcome of calculate_pool_metrics
    period_result,        \* outcome of _calculate_period_metrics
    pool_addresses,       \* calculate_multi_pool_metrics arguments
    ranking_by,
    pools_metrics,        \* calculate_multi_pool_metrics: pools_metrics
    attempts,             \* per input position: "ok" | "failed"
    multi_result,         \* outcome of calculate_multi_pool_metrics
    pool_queries,         \* get_current_pool_data: the queries sent so far, with their responses
    previous,             \* outcome of the invocation before the running one
    response,             \* HTTP status POST /report ended with (<<>> before)
    metrics_data          \* what format_metrics_for_email returned (<<>> before)

vars == <<pc, settings, request, upstream, clock, current_pool, snapshots,
          fifteen_days_ago_ts, snapshot_15d_ago, pool_result, period_result,
          pool_addresses, ranking_by, pools_metrics, attempts, multi_result,
          pool_queries, previous, response, metrics_data>>

(***************************************************************************)
(* Bounds of the model and constants of the program.                       *)
(***************************************************************************)
MaxPeriodSnaps == 3     \* length of the lists given to the pure functions
MaxStoreSnaps == 3      \* snapshots the upstream holds for one pool
MaxPools == 5           \* length of a batch
MaxDrift == 1           \* seconds the clock may advance between two readings

SecondsPerDay == 86400
Tolerance == 86400
BaselineDays == 15
HistoryDays == 30
LocatorDays == 5
TopN == 3
Epoch == 40 * SecondsPerDay      \* the first clock reading of a run

None == <<>>
Some(x) == <<x>>

(***************************************************************************)
(* Exact arithmetic standing for Python float arithmetic.                  *)
(***************************************************************************)
Abs(n) == IF n < 0 THEN -n ELSE n

RECURSIVE Gcd(_, _)
Gcd(a, b) == IF b = 0 THEN a ELSE Gcd(b, a % b)

Rat(n, d) ==
    LET s == IF d < 0 THEN -1 ELSE 1
        g == Gcd(Abs(n), Abs(d))
    IN  [num |-> (s * n) \div g, den |-> (s * d) \div g]

\* float("123"), float(123)
Float(n) == [num |-> n, den |-> 1]
Zero == Float(0)

RAdd(a, b) == Rat(a.num * b.den + b.num * a.den, a.den * b.den)
RSub(a, b) == Rat(a.num * b.den - b.num * a.den, a.den * b.den)
RMul(a, b) == Rat(a.num * b.num, a.den * b.den)
RDiv(a, b) == Rat(a.num * b.den, a.den * b.num)
RLess(a, b) == a.num * b.den < b.num * a.den
RLeq(a, b) == a.num * b.den <= b.num * a.den
RPos(a) == a.num > 0
\* max(0, x)
RMax0(a) == IF RLess(Zero, a) THEN a ELSE Zero

(***************************************************************************)
(* Python list helpers.                                                    *)
(***************************************************************************)
\* list.sort(key=timestamp): ascending, stable
RECURSIVE SortByTimestamp(_)
SortByTimestamp(s) ==
    IF s = <<>> THEN <<>>
    ELSE LET rest == SortByTimestamp(SubSeq(s, 1, Len(s) - 1))
             x == s[Len(s)]
         IN  SelectSeq(rest, LAMBDA y : y.timestamp <= x.timestamp)
             \o <<x>>
             \o SelectSeq(rest, LAMBDA y : y.timestamp > x.timestamp)

\* max(s, key=timestamp): the first element with the greatest timestamp
MaxByTimestamp(s) ==
    LET i == CHOOSE i \in 1..Len(s) :
                 /\ \A j \in 1..Len(s) : s[j].timestamp <= s[i].timestamp
                 /\ \A j \in 1..(i - 1) : s[j].timestamp < s[i].timestamp
    IN  s[i]

\* min(s, key=|timestamp - target|): the first element nearest to target
MinByDistance(s, target) ==
    LET d(x) == Abs(x.timestamp - target)
        i == CHOOSE i \in 1..Len(s) :
                 /\ \A j \in 1..Len(s) : d(s[i]) <= d(s[j])
                 /\ \A j \in 1..(i - 1) : d(s[i]) < d(s[j])
    IN  s[i]

(***************************************************************************)
(* MetricsCalculator._calculate_period_metrics                             *)
(***************************************************************************)
UnsortedPeriodSnapshots(snaps, start_timestamp) ==
    SelectSeq(snaps, LAMBDA s : s.timestamp >= start_timestamp)

PeriodSnapshots(snaps, start_timestamp) ==
    SortByTimestamp(SelectSeq(snaps, LAMBDA s : s.timestamp >= start_timestamp))

PrePeriodSnapshots(snaps, start_timestamp) ==
    SelectSeq(snaps, LAMBDA s : s.timestamp < start_timestamp)

\* latest_snapshot = period_snapshots[-1]
PeriodLatest(snaps, start_timestamp) ==
    LET p == PeriodSnapshots(snaps, start_timestamp) IN p[Len(p)]

\* baseline: the last snapshot before the period, else the period's earliest
PeriodBaseline(snaps, start_timestamp) ==
    LET pre == PrePeriodSnapshots(snaps, start_timestamp)
    IN  IF pre # <<>> THEN MaxByTimestamp(pre)
        ELSE PeriodSnapshots(snaps, start_timestamp)[1]

UnclampedDelta(latest, base) == RSub(latest, base)

\* total = max(0, latest - base)
PeriodDelta(latest, base) == RMax0(RSub(latest, base))

CalculatePeriodMetrics(snaps, start_timestamp) ==
    IF snaps = <<>> THEN [volume |-> Zero, fees |-> Zero]
    ELSE IF PeriodSnapshots(snaps, start_timestamp) = <<>>
    THEN [volume |-> Zero, fees |-> Zero]
    ELSE LET latest == PeriodLatest(snaps, start_timestamp)
             base == PeriodBaseline(snaps, start_timestamp)
         IN  [volume |-> PeriodDelta(Float(latest.swapVolume), Float(base.swapVolume)),
              fees |-> PeriodDelta(Float(latest.swapFees), Float(base.swapFees))]

(***************************************************************************)
(* BalancerAPI.get_snapshot_at_timestamp, after the fetch                  *)
(***************************************************************************)
WideNearby(snaps, target) ==
    SelectSeq(snaps, LAMBDA s : Abs(s.timestamp - target) <= Tolerance + 1)

NearbySnapshots(snaps, target) ==
    SelectSeq(snaps, LAMBDA s : Abs(s.timestamp - target) <= Tolerance)

ClosestSnapshot(snaps, target) ==
    IF snaps = <<>> THEN None
    ELSE IF NearbySnapshots(snaps, target) = <<>> THEN None
    ELSE Some(MinByDistance(NearbySnapshots(snaps, target), target))

(***************************************************************************)
(* BalancerAPI: the gateway.  An upstream response is "found", "none"      *)
(* (an empty result) or "error" (transport, HTTP or GraphQL failure        *)
(* raised by _execute_query as BalancerAPIError).                          *)
(***************************************************************************)
DefaultBlockchainName == "ethereum"      \* settings.blockchain_name

DefaultChain == "MAINNET"                \* settings.default_chain

\* str.lower() on the addresses and chain names of the model
Lower(address) ==
    CASE address = "0xAB" -> "0xab"
      [] address = "0xCD" -> "0xcd"
      [] address = "Ethereum" -> "ethereum"
      [] OTHER -> address

\* `if blockchain:` / blockchain.lower()
BlockchainName(blockchain) ==
    IF blockchain # None THEN Lower(blockchain[1]) ELSE DefaultBlockchainName

\* _blockchain_name_to_api_chain, or self.chain without a hint
ApiChain(blockchain) ==
    IF blockchain = None THEN DefaultChain
    ELSE CASE Lower(blockchain[1]) = "ethereum" -> "MAINNET"
           [] Lower(blockchain[1]) = "arbitrum" -> "ARBITRUM"
           [] Lower(blockchain[1]) = "plasma" -> "PLASMA"

\* the guard of the legacy path in get_current_pool_data
TriesV2(gql_endpoint, blockchain) ==
    gql_endpoint /\ (IF blockchain = None THEN TRUE ELSE Lower(blockchain[1]) = "ethereum")

\* one call of _execute_query: the endpoint, the query, its variables and
\* what came back ("found", "none" or "error")
Query(url, query, id, chain, answer) ==
    [url |-> url, query |-> query, id |-> id, chain |-> chain, response |-> answer]

\* _get_v2_pool_by_address: variables = {"address": pool_address.lower()}
V2PoolQuery(pool_address, answer) ==
    Query("v2_subgraph", "pools", Lower(pool_address), None, answer)

\* poolGetPool: variables = {"id": pool_address.lower(), "chain": api_chain}
V3PoolQuery(pool_address, blockchain, answer) ==
    Query("v3_api", "poolGetPool", Lower(pool_address), Some(ApiChain(blockchain)), answer)

PassThroughV2(raw, address) ==
    [id |-> <<Lower(address), "0002">>,
     address |-> Lower(address),
     name |-> raw.name,
     type |-> raw.type,
     version |-> 2,
     swapFee |-> raw.swapFee,
     api_version |-> "v2",
     blockchain |-> DefaultBlockchainName,
     dynamicData |-> [totalLiquidity |-> raw.totalLiquidity,
                      volume24h |-> raw.volume24h,
                      fees24h |-> raw.fees24h,
                      aprItems |-> raw.aprItems],
     allTokens |-> raw.tokens]

\* _get_v2_pool_by_address: the legacy payload in the canonical shape
NormalizeV2(raw, address) ==
    [id |-> <<Lower(address), "0002">>,
     address |-> Lower(address),
     name |-> raw.name,
     type |-> raw.type,
     version |-> 2,
     swapFee |-> raw.swapFee,
     api_version |-> "v2",
     blockchain |-> DefaultBlockchainName,
     dynamicData |-> [totalLiquidity |-> raw.totalLiquidity,
                      volume24h |-> 0,
                      fees24h |-> 0,
                      aprItems |-> <<>>],
     allTokens |-> raw.tokens]

\* the poolGetPool payload, stamped with _api_version and _blockchain
StampV3(raw, address, blockchain_name) ==
    [id |-> <<Lower(address)>>,
     address |-> Lower(address),
     name |-> raw.name,
     type |-> raw.type,
     version |-> 3,
     api_version |-> "v3",
     blockchain |-> blockchain_name,
     dynamicData |-> [totalLiquidity |-> raw.totalLiquidity,
                      volume24h |-> raw.volume24h,
                      fees24h |-> raw.fees24h,
                      swapFee |-> raw.swapFee,
                      aprItems |-> raw.aprItems],
     allTokens |-> raw.tokens]

\* the pool returned by the legacy path: pool['_blockchain'] = blockchain_name
V2Pool(raw, req) ==
    [NormalizeV2(raw, req.pool_address) EXCEPT !.blockchain = BlockchainName(req.blockchain)]

\* get_current_pool_data: Some(pool), or None when BalancerAPIError is raised
GetCurrentPoolData(gql_endpoint, req, v2, v3, raw) ==
    IF TriesV2(gql_endpoint, req.blockchain) /\ v2 = "found"
    THEN Some(V2Pool(raw, req))
    ELSE IF v3 = "found"
    THEN Some(StampV3(raw, req.pool_address, BlockchainName(req.blockchain)))
    ELSE None

\* the subgraph's answer to poolSnapshots(where: timestamp_gte, orderBy: timestamp asc)
V2Snapshots(store, now, days_back) ==
    SelectSeq(store, LAMBDA s : s.timestamp >= now - days_back * SecondsPerDay)

\* get_v3_pool_snapshots: running sums over the buckets inside the window
RECURSIVE V3Normalize(_, _, _, _)
V3Normalize(buckets, start_timestamp, cumulative_volume, cumulative_fees) ==
    IF buckets = <<>> THEN <<>>
    ELSE LET b == Head(buckets)
         IN  IF b.timestamp >= start_timestamp
             THEN <<[timestamp |-> b.timestamp,
                     liquidity |-> b.liquidity,
                     swapVolume |-> cumulative_volume + b.swapVolume,
                     swapFees |-> cumulative_fees + b.swapFees]>>
                  \o V3Normalize(Tail(buckets), start_timestamp,
                                 cumulative_volume + b.swapVolume,
                                 cumulative_fees + b.swapFees)
             ELSE V3Normalize(Tail(buckets), start_timestamp,
                              cumulative_volume, cumulative_fees)

V3Snapshots(store, now, days_back, history) ==
    IF history = "error" THEN <<>>
    ELSE V3Normalize(store, now - days_back * SecondsPerDay, 0, 0)

RaisingSnapshots(store, now, days_back, pool_version, history) ==
    IF history = "error" THEN None
    ELSE IF pool_version = "v3" THEN Some(V3Snapshots(store, now, days_back, history))
    ELSE Some(V2Snapshots(store, now, days_back))

SwallowingSnapshots(store, now, days_back, pool_version, history) ==
    IF history = "error" THEN Some(<<>>)
    ELSE IF pool_version = "v3" THEN Some(V3Snapshots(store, now, days_back, history))
    ELSE Some(V2Snapshots(store, now, days_back))

\* get_pool_snapshots: Some(list), or None when BalancerAPIError is raised
GetPoolSnapshots(store, now, days_back, pool_version, history) ==
    IF pool_version = "v3" THEN Some(V3Snapshots(store, now, days_back, history))
    ELSE IF history = "error" THEN None
    ELSE Some(V2Snapshots(store, now, days_back))

\* days_back of the fetch made by get_snapshot_at_timestamp
LocatorDaysBack == LocatorDays

(***************************************************************************)
(* MetricsCalculator.calculate_pool_metrics, after the fetches             *)
(***************************************************************************)
\* str.upper() on the pool types of the model
Upper(type) ==
    CASE type = "Weighted" -> "WEIGHTED"
      [] type = "Stable" -> "STABLE"
      [] type = "ComposableStable" -> "COMPOSABLESTABLE"
      [] type = "MetaStable" -> "METASTABLE"
      [] type = "Gyro" -> "GYRO"
      [] OTHER -> type

\* _detect_pool_type: type_map.get(pool_type.upper(), pool_type)
DetectPoolType(pool) ==
    CASE Upper(pool.type) = "WEIGHTED" -> "Weighted"
      [] Upper(pool.type) \in {"COMPOSABLE_STABLE", "COMPOSABLESTABLE", "STABLE"} -> "Stable"
      [] Upper(pool.type) \in {"META_STABLE", "METASTABLE"} -> "MetaStable"
      [] Upper(pool.type) = "BOOSTED" -> "Boosted"
      [] Upper(pool.type) \in {"GYRO", "GYROE"} -> "Gyro"
      [] Upper(pool.type) = "FX" -> "FX"
      [] Upper(pool.type) = "LVR" -> "LVR"
      [] OTHER -> pool.type

\* _extract_static_metrics: swap_fee
SwapFee(pool) ==
    IF "swapFee" \in DOMAIN pool THEN pool.swapFee
    ELSE IF "swapFee" \in DOMAIN pool.dynamicData THEN pool.dynamicData.swapFee
    ELSE Zero

RECURSIVE SumApr(_)
SumApr(items) ==
    IF items = <<>> THEN Zero ELSE RAdd(Head(items).apr, SumApr(Tail(items)))

\* _extract_dynamic_metrics: boosted_apr
BoostedApr(pool) ==
    IF DetectPoolType(pool) = "Boosted"
    THEN LET boosted_items == SelectSeq(pool.dynamicData.aprItems,
                                        LAMBDA a : a.type = "IB_YIELD")
         IN  IF boosted_items # <<>> THEN Some(SumApr(boosted_items)) ELSE None
    ELSE None

\* `"hook" in pool_data and pool_data["hook"]`
HasHook(pool) == "hook" \in DOMAIN pool /\ pool.hook # None

\* _extract_dynamic_metrics: surge_fees and surge_fees_15d_ago are set to
\* None for a pool with a hook, and not set for any other
SurgeFees(pool) == IF HasHook(pool) THEN None ELSE None

ZeroCount(pool) ==
    IF DetectPoolType(pool) \in {"Gyro", "LVR", "Boosted"} THEN Some(0) ELSE None

\* _extract_dynamic_metrics: rebalance_count_15d is never resolved
RebalanceCount(pool) == None

\* f"{x:,.2f}", round(x, 2): x in hundredths, halves to even
Cents(x) ==
    LET q == (x.num * 100) \div x.den
        r == (x.num * 100) % x.den
    IN  IF 2 * r > x.den THEN q + 1
        ELSE IF 2 * r < x.den THEN q
        ELSE IF q % 2 = 0 THEN q ELSE q + 1

\* a weight of at most 1 is a fraction and becomes a percentage
WeightPercent(weight) ==
    LET weight_float == IF RLeq(weight, Float(1)) THEN RMul(weight, Float(100)) ELSE weight
    IN  Rat(Cents(weight_float), 100)

\* weights_dict: the tokens with a symbol and a weight (weights arrive as
\* decimal strings); a later token replaces an earlier one of the same symbol
WeightsDict(tokens) ==
    LET valid == SelectSeq(tokens, LAMBDA t : t.symbol # "" /\ t.weight # None)
        last(symbol) == CHOOSE i \in 1..Len(valid) :
                            /\ valid[i].symbol = symbol
                            /\ \A j \in (i + 1)..Len(valid) : valid[j].symbol # symbol
    IN  [symbol \in {valid[i].symbol : i \in 1..Len(valid)} |->
            WeightPercent(valid[last(symbol)].weight[1])]

UngatedTokenWeights(pool) ==
    IF DOMAIN WeightsDict(pool.allTokens) # {}
    THEN Some(WeightsDict(pool.allTokens)) ELSE None

\* _extract_static_metrics: token_weights
TokenWeights(pool) ==
    IF DetectPoolType(pool) = "Weighted" /\ DOMAIN WeightsDict(pool.allTokens) # {}
    THEN Some(WeightsDict(pool.allTokens))
    ELSE None

\* _extract_static_metrics: is_core_pool
IsCorePool(pool) == IF "isCore" \in DOMAIN pool THEN pool.isCore ELSE FALSE

\* _generate_pool_url
PoolUrl(pool, pool_address) ==
    <<"https://balancer.fi/pools", pool.blockchain, pool.api_version, Lower(pool_address)>>

BaselineTvlNoV3Fallback(pool, snaps, snap15) ==
    IF snap15 # None THEN Float(snap15[1].liquidity)
    ELSE IF snaps # <<>> THEN Float(snaps[1].liquidity)
    ELSE Zero

\* tvl_15d_ago
BaselineTvl(pool, snaps, snap15) ==
    IF snap15 # None THEN Float(snap15[1].liquidity)
    ELSE IF snaps # <<>> THEN Float(snaps[1].liquidity)
    ELSE IF pool.api_version = "v3" THEN Float(pool.dynamicData.totalLiquidity)
    ELSE Zero

TvlChangeFraction(tvl_current, tvl_15d_ago, has_historical_data) ==
    IF RPos(tvl_15d_ago) /\ has_historical_data
    THEN RDiv(RSub(tvl_current, tvl_15d_ago), tvl_15d_ago)
    ELSE Zero

\* tvl_change_percent
TvlChangePercent(tvl_current, tvl_15d_ago, has_historical_data) ==
    IF RPos(tvl_15d_ago) /\ has_historical_data
    THEN RMul(RDiv(RSub(tvl_current, tvl_15d_ago), tvl_15d_ago), Float(100))
    ELSE Zero

\* volume_15d_ago / fees_15d_ago
BaselineCounter(snaps, snap15, field) ==
    IF snap15 # None THEN Float(snap15[1][field])
    ELSE IF snaps # <<>> THEN Float(snaps[1][field])
    ELSE Zero

EstimateDays == 15

\* volume_15_days, fees_15_days
PeriodTotals(pool, snaps, start_timestamp) ==
    IF snaps # <<>> THEN CalculatePeriodMetrics(snaps, start_timestamp)
    ELSE [volume |-> RMul(Float(pool.dynamicData.volume24h), Float(EstimateDays)),
          fees |-> RMul(Float(pool.dynamicData.fees24h), Float(EstimateDays))]

UnguardedChangePercent(snaps, baseline, period_total, field) ==
    IF snaps # <<>> /\ RPos(baseline) /\ RPos(period_total)
    THEN RMul(RDiv(RSub(Float(snaps[Len(snaps)][field]), baseline), baseline), Float(100))
    ELSE Zero

\* volume_change_percent / fees_change_percent
CounterChangePercent(snaps, baseline, period_total, field) ==
    IF snaps # <<>> /\ RPos(baseline) /\ RPos(period_total)
    THEN LET current_cumulative == Float(snaps[Len(snaps)][field])
         IN  IF RLess(baseline, current_cumulative)
             THEN RMul(RDiv(RSub(current_cumulative, baseline), baseline), Float(100))
             ELSE Zero
    ELSE Zero

\* apr_current: the resolution chain
AprCurrent(pool, tvl_current, fees_15_days) ==
    LET dd == pool.dynamicData
        a1 == IF "totalApr" \in DOMAIN dd THEN Some(dd.totalApr) ELSE None
        unset(a) == a = None \/ a[1] = Zero
        a2 == IF unset(a1) /\ dd.aprItems # <<>>
              THEN IF RPos(SumApr(dd.aprItems)) THEN Some(SumApr(dd.aprItems))
                   ELSE Some(dd.aprItems[1].apr)
              ELSE a1
        a3 == IF unset(a2) /\ "apr" \in DOMAIN dd THEN Some(dd.apr) ELSE a2
        a4 == IF unset(a3) /\ "totalShares" \in DOMAIN pool /\ "apr" \in DOMAIN pool
              THEN Some(pool.apr) ELSE a3
    IN  IF unset(a4) /\ RPos(tvl_current) /\ RPos(fees_15_days)
        THEN Some(RDiv(RMul(RDiv(fees_15_days, Float(15)), Float(365)), tvl_current))
        ELSE a4

\* the PoolMetrics returned by calculate_pool_metrics
CalculateMetrics(pool, pool_address, snaps, snap15, start_timestamp) ==
    LET tvl_current == Float(pool.dynamicData.totalLiquidity)
        has_historical_data == Len(snaps) > 0
        tvl_15d_ago == BaselineTvl(pool, snaps, snap15)
        totals == PeriodTotals(pool, snaps, start_timestamp)
        volume_15d_ago == BaselineCounter(snaps, snap15, "swapVolume")
        fees_15d_ago == BaselineCounter(snaps, snap15, "swapFees")
    IN  [tvl_current |-> tvl_current,
         tvl_15_days_ago |-> tvl_15d_ago,
         tvl_change_percent |-> TvlChangePercent(tvl_current, tvl_15d_ago, has_historical_data),
         volume_15_days |-> totals.volume,
         volume_change_percent |->
             CounterChangePercent(snaps, volume_15d_ago, totals.volume, "swapVolume"),
         fees_15_days |-> totals.fees,
         fees_change_percent |->
             CounterChangePercent(snaps, fees_15d_ago, totals.fees, "swapFees"),
         apr_current |-> AprCurrent(pool, tvl_current, totals.fees),
         pool_name |-> pool.name,
         pool_address |-> pool_address,
         pool_url |-> PoolUrl(pool, pool_address),
         pool_type |-> DetectPoolType(pool),
         swap_fee |-> SwapFee(pool),
         is_core_pool |-> IsCorePool(pool),
         token_weights |-> TokenWeights(pool),
         boosted_apr |-> BoostedApr(pool),
         boosted_apr_15d_ago |-> None,   \* None for a Boosted pool, not set otherwise
         surge_fees |-> SurgeFees(pool),
         surge_fees_15d_ago |-> SurgeFees(pool),
         rebalance_count_15d |-> RebalanceCount(pool)]

(***************************************************************************)
(* MetricsCalculator.format_metrics_for_email                              *)
(***************************************************************************)
\* is_v3_estimated: inferred from the values of the PoolMetrics
IsV3Estimated(metrics) ==
    /\ metrics.tvl_change_percent = Zero
    /\ metrics.tvl_current = metrics.tvl_15_days_ago
    /\ RPos(metrics.tvl_current)
    /\ metrics.volume_change_percent = Zero
    /\ metrics.fees_change_percent = Zero

\* f"${x:,.2f}" + (" (est.)" if is_v3_estimated else "")
FormatAmount(x, estimated) ==
    [cents |-> Cents(x), suffix |-> IF estimated THEN " (est.)" ELSE ""]

FormatMetricsForEmail(metrics) ==
    [pool_name |-> metrics.pool_name,
     pool_address |-> metrics.pool_address,
     pool_url |-> metrics.pool_url,
     tvl_current |-> FormatAmount(metrics.tvl_current, FALSE),
     tvl_15d_ago |-> FormatAmount(metrics.tvl_15_days_ago, FALSE),
     volume_15d |-> FormatAmount(metrics.volume_15_days, IsV3Estimated(metrics)),
     fees_15d |-> FormatAmount(metrics.fees_15_days, IsV3Estimated(metrics)),
     is_v3_estimated |-> IsV3Estimated(metrics)]

\* calculate_pool_metrics as one call: the three fetches, then the metrics
CalculatePoolMetrics(gql_endpoint, req, answer, now) ==
    LET found == GetCurrentPoolData(gql_endpoint, req, answer.v2, answer.v3, answer.raw)
    IN  IF found = None THEN [status |-> "BalancerAPIError", metrics |-> None]
        ELSE
        LET version == found[1].api_version
            history == GetPoolSnapshots(answer.store, now, HistoryDays, version, answer.history)
            target == now - BaselineDays * SecondsPerDay
            recent == GetPoolSnapshots(answer.store, now, LocatorDaysBack, version, answer.history)
        IN  IF history = None \/ recent = None
            THEN [status |-> "BalancerAPIError", metrics |-> None]
            ELSE [status |-> "ok",
                  metrics |-> Some(CalculateMetrics(found[1], req.pool_address, history[1],
                                                    ClosestSnapshot(recent[1], target), target))]

(***************************************************************************)
(* MetricsCalculator.calculate_multi_pool_metrics                          *)
(***************************************************************************)
Min(a, b) == IF a < b THEN a ELSE b

CollectFirst(metrics_list, outcome) ==
    IF outcome.status = "ok" THEN outcome.metrics \o metrics_list ELSE metrics_list

\* the loop body: append on success, skip on any exception
Collect(metrics_list, outcome) ==
    IF outcome.status = "ok" THEN metrics_list \o outcome.metrics ELSE metrics_list

AscendingInsert(order, i, keys) ==
    SelectSeq(order, LAMBDA j : RLeq(keys[j], keys[i]))
    \o <<i>>
    \o SelectSeq(order, LAMBDA j : RLess(keys[i], keys[j]))

UnstableInsert(order, i, keys) ==
    SelectSeq(order, LAMBDA j : RLess(keys[i], keys[j]))
    \o <<i>>
    \o SelectSeq(order, LAMBDA j : RLeq(keys[j], keys[i]))

\* sorted(..., reverse=True) is stable: an element goes behind the elements
\* before it in the list whose key is greater or equal
InsertDescending(order, i, keys) ==
    SelectSeq(order, LAMBDA j : RLeq(keys[i], keys[j]))
    \o <<i>>
    \o SelectSeq(order, LAMBDA j : RLess(keys[j], keys[i]))

RECURSIVE DescendingOrder(_, _)
DescendingOrder(keys, n) ==
    IF n = 0 THEN <<>> ELSE InsertDescending(DescendingOrder(keys, n - 1), n, keys)

\* sorted(metrics_list, key=..., reverse=True)[:3]
Top3(metrics_list, keys) ==
    LET order == DescendingOrder(keys, Len(keys))
    IN  [k \in 1..Min(TopN, Len(order)) |-> metrics_list[order[k]]]

RECURSIVE Sum(_)
Sum(values) == IF values = <<>> THEN Zero ELSE RAdd(Head(values), Sum(Tail(values)))

TvlIncrease(p) == RSub(p.tvl_current, p.tvl_15_days_ago)

Top3Tvl(metrics_list) ==
    LET top == Top3(metrics_list, [k \in 1..Len(metrics_list) |-> TvlIncrease(metrics_list[k])])
    IN  [k \in 1..Len(top) |->
            [pool_name |-> top[k].pool_name, value |-> TvlIncrease(top[k]),
             percentage |-> top[k].tvl_change_percent, pool_url |-> top[k].pool_url]]

TopVolumeOnly(metrics_list) ==
    LET top == Top3(metrics_list, [k \in 1..Len(metrics_list) |-> metrics_list[k].volume_15_days])
    IN  Sum([k \in 1..Len(top) |-> top[k].volume_15_days])

\* total_volume: over every pool of pools_metrics
TotalVolume(metrics_list) ==
    Sum([k \in 1..Len(metrics_list) |-> metrics_list[k].volume_15_days])

Top3Volume(metrics_list) ==
    LET total_volume == TotalVolume(metrics_list)
        top == Top3(metrics_list, [k \in 1..Len(metrics_list) |-> metrics_list[k].volume_15_days])
    IN  [k \in 1..Len(top) |->
            [pool_name |-> top[k].pool_name, value |-> top[k].volume_15_days,
             percentage |-> IF RPos(total_volume)
                            THEN RMul(RDiv(top[k].volume_15_days, total_volume), Float(100))
                            ELSE Zero,
             pool_url |-> top[k].pool_url]]

TotalTvlWithApr(metrics_list) ==
    Sum([k \in 1..Len(metrics_list) |->
            IF metrics_list[k].apr_current # None THEN metrics_list[k].tvl_current ELSE Zero])

\* total_tvl
TotalTvl(metrics_list) ==
    Sum([k \in 1..Len(metrics_list) |-> metrics_list[k].tvl_current])

\* `if p.apr_current:`
HasApr(p) == p.apr_current # None /\ p.apr_current[1] # Zero

UnweightedApr(metrics_list) ==
    Sum([k \in 1..Len(metrics_list) |->
            IF HasApr(metrics_list[k]) THEN metrics_list[k].apr_current[1] ELSE Zero])

\* weighted_apr
WeightedApr(metrics_list) ==
    LET total_tvl == TotalTvl(metrics_list)
    IN  IF RPos(total_tvl)
        THEN Sum([k \in 1..Len(metrics_list) |->
                    IF HasApr(metrics_list[k])
                    THEN RMul(metrics_list[k].apr_current[1],
                              RDiv(metrics_list[k].tvl_current, total_tvl))
                    ELSE Zero])
        ELSE Zero

CustomEntries(top, values) ==
    [k \in 1..Len(top) |->
        [pool_name |-> top[k].pool_name, value |-> values[k], pool_url |-> top[k].pool_url]]

SwapFeeRanking(metrics_list) ==
    LET val(p) == p.swap_fee
        top == Top3(metrics_list, [k \in 1..Len(metrics_list) |-> val(metrics_list[k])])
    IN  CustomEntries(top, [k \in 1..Len(top) |-> val(top[k])])

RebalanceRanking(rebalanceable) ==
    LET val(p) == Float(p.rebalance_count_15d[1])
        top == Top3(rebalanceable, [k \in 1..Len(rebalanceable) |-> val(rebalanceable[k])])
    IN  CustomEntries(top, [k \in 1..Len(top) |-> val(top[k])])

BoostedRanking(boosted) ==
    LET val(p) == p.boosted_apr[1]
        top == Top3(boosted, [k \in 1..Len(boosted) |-> val(boosted[k])])
    IN  CustomEntries(top, [k \in 1..Len(top) |-> val(top[k])])

\* custom_rankings: a dict, here a function on the keys that were set
CustomRankings(metrics_list, requested) ==
    LET rebalanceable == SelectSeq(metrics_list, LAMBDA p : p.rebalance_count_15d # None)
        boosted == SelectSeq(metrics_list, LAMBDA p : p.boosted_apr # None)
        keys == {k \in requested :
                    \/ k = "swap_fee"
                    \/ k = "rebalance_count" /\ rebalanceable # <<>>
                    \/ k = "boosted_apr" /\ boosted # <<>>}
    IN  [k \in keys |->
            CASE k = "swap_fee" -> SwapFeeRanking(metrics_list)
              [] k = "rebalance_count" -> RebalanceRanking(rebalanceable)
              [] k = "boosted_apr" -> BoostedRanking(boosted)]

\* the MultiPoolMetrics built from a non-empty pools_metrics
Aggregate(metrics_list, requested) ==
    [pools |-> metrics_list,
     top_3_by_volume |-> Top3Volume(metrics_list),
     top_3_by_tvl |-> Top3Tvl(metrics_list),
     custom_rankings |-> CustomRankings(metrics_list, requested),
     total_fees |-> Sum([k \in 1..Len(metrics_list) |-> metrics_list[k].fees_15_days]),
     total_apr |-> WeightedApr(metrics_list)]

(***************************************************************************)
(* Inputs of the pure functions.                                           *)
(***************************************************************************)
T0 == Epoch - BaselineDays * SecondsPerDay

RECURSIVE SeqsUpTo(_, _)
SeqsUpTo(S, n) ==
    IF n = 0 THEN {<<>>}
    ELSE LET shorter == SeqsUpTo(S, n - 1)
         IN  shorter \cup {Append(s, x) : s \in {t \in shorter : Len(t) = n - 1}, x \in S}

Snapshot(t, l, v, f) == [timestamp |-> t, liquidity |-> l, swapVolume |-> v, swapFees |-> f]

\* a token of a payload: its symbol and its weight (None for null)
Token(symbol, weight) == [symbol |-> symbol, weight |-> weight]

TwoTokens == <<Token("WETH", Some(Rat(4, 5))), Token("BAL", Some(Rat(1, 5)))>>

PeriodTimes == {T0 - SecondsPerDay, T0 - 1, T0, T0 + SecondsPerDay}
PeriodInputs ==
    {Snapshot(t, 0, v, f) : t \in PeriodTimes, v \in {0, 50000, 90000}, f \in {0, 40}}

LocatorTimes == {T0 - Tolerance - 1, T0 - Tolerance, T0 - 1, T0, T0 + Tolerance, T0 + Tolerance + 1}
LocatorInputs == {Snapshot(t, l, 0, 0) : t \in LocatorTimes, l \in {1, 2}}

\* the outcome of a call: pending, raised (the error's type) or returned
Pending == [status |-> "pending", metrics |-> None]
Failed(error) == [status |-> error, metrics |-> None]
Returned(metrics) == [status |-> "ok", metrics |-> Some(metrics)]

Idle ==
    /\ settings = [gql_endpoint |-> FALSE]
    /\ request = <<>>
    /\ upstream = <<>>
    /\ clock = Epoch
    /\ current_pool = None
    /\ pool_result = Pending
    /\ pool_addresses = <<>>
    /\ ranking_by = None
    /\ pools_metrics = <<>>
    /\ attempts = <<>>
    /\ multi_result = Pending
    /\ pool_queries = <<>>
    /\ previous = None
    /\ response = None
    /\ metrics_data = None

(***************************************************************************)
(* SpecPeriod: _calculate_period_metrics applied to every bounded input.   *)
(***************************************************************************)
InitPeriod ==
    /\ Idle
    /\ pc = "period"
    /\ snapshots \in SeqsUpTo(PeriodInputs, MaxPeriodSnaps)
    /\ fifteen_days_ago_ts \in {T0 - 1, T0}
    /\ snapshot_15d_ago = None
    /\ period_result = None

CalculatePeriod ==
    /\ pc = "period"
    /\ period_result' = Some(CalculatePeriodMetrics(snapshots, fifteen_days_ago_ts))
    /\ pc' = "done"
    /\ UNCHANGED <<settings, request, upstream, clock, current_pool, snapshots,
                   fifteen_days_ago_ts, snapshot_15d_ago, pool_result,
                   pool_addresses, ranking_by, pools_metrics, attempts, multi_result,
                   pool_queries, previous, response, metrics_data>>

NextPeriod == CalculatePeriod

SpecPeriod == InitPeriod /\ [][NextPeriod]_vars

(***************************************************************************)
(* SpecLocator: the selection of get_snapshot_at_timestamp applied to      *)
(* every bounded snapshot list.                                            *)
(***************************************************************************)
InitLocator ==
    /\ Idle
    /\ pc = "locate"
    /\ snapshots \in SeqsUpTo(LocatorInputs, MaxPeriodSnaps)
    /\ fifteen_days_ago_ts = T0
    /\ snapshot_15d_ago = None
    /\ period_result = None

Locate ==
    /\ pc = "locate"
    /\ snapshot_15d_ago' = ClosestSnapshot(snapshots, fifteen_days_ago_ts)
    /\ pc' = "done"
    /\ UNCHANGED <<settings, request, upstream, clock, current_pool, snapshots,
                   fifteen_days_ago_ts, pool_result, period_result,
                   pool_addresses, ranking_by, pools_metrics, attempts, multi_result,
                   pool_queries, previous, response, metrics_data>>

NextLocator == Locate

SpecLocator == InitLocator /\ [][NextLocator]_vars

(***************************************************************************)
(* SpecPool: one call of calculate_pool_metrics.  The upstream holds a     *)
(* payload and a snapshot store for the pool; every query is answered      *)
(* "found"/"ok", with nothing, or with an error.  The calculation is       *)
(* suspended at its three upstream calls:                                  *)
(*   FetchCurrentPool    get_current_pool_data                             *)
(*   FetchHistory        get_pool_snapshots(days_back=30), then the clock  *)
(*                       reading that fixes fifteen_days_ago_ts            *)
(*   LocateAndReconcile  get_snapshot_at_timestamp and the synchronous     *)
(*                       rest of the function                              *)
(*   FormatForEmail      format_metrics_for_email on the returned metrics  *)
(***************************************************************************)
QueryOutcomes == {"found", "none", "error"}
HistoryOutcomes == {"ok", "error"}

StoreTimes ==
    {Epoch - 31 * SecondsPerDay, Epoch - 20 * SecondsPerDay,
     Epoch - BaselineDays * SecondsPerDay, Epoch - 14 * SecondsPerDay,
     Epoch - 3 * SecondsPerDay}

StoreValues ==
    {[liquidity |-> 800000, swapVolume |-> 50000, swapFees |-> 50],
     [liquidity |-> 500000, swapVolume |-> 30000, swapFees |-> 30],
     [liquidity |-> 800000, swapVolume |-> 90000, swapFees |-> 90],
     [liquidity |-> 500000, swapVolume |-> 90000, swapFees |-> 20]}

StoreSnapshots ==
    {Snapshot(t, v.liquidity, v.swapVolume, v.swapFees) : t \in StoreTimes, v \in StoreValues}

\* the stores of the upstream: at most one snapshot per timestamp, ascending
RECURSIVE Stores(_)
Stores(n) ==
    IF n = 0 THEN {<<>>}
    ELSE LET shorter == Stores(n - 1)
         IN  shorter \cup
             {Append(s, x) : s \in {t \in shorter : Len(t) = n - 1},
                             x \in StoreSnapshots}

Ascending(s) == \A i \in 1..(Len(s) - 1) : s[i].timestamp < s[i + 1].timestamp

AscendingStores == {s \in Stores(MaxStoreSnaps) : Ascending(s)}

RawPools ==
    {[name |-> "Pool", type |-> "WEIGHTED", swapFee |-> Rat(3, 1000),
      totalLiquidity |-> tvl, volume24h |-> r.volume24h, fees24h |-> r.fees24h,
      aprItems |-> <<>>, tokens |-> TwoTokens] :
        tvl \in {0, 1000000},
        r \in {[volume24h |-> 0, fees24h |-> 0], [volume24h |-> 2000, fees24h |-> 20]}}

InitPool ==
    /\ period_result = None
    /\ pool_addresses = <<>>
    /\ ranking_by = None
    /\ pools_metrics = <<>>
    /\ attempts = <<>>
    /\ multi_result = Pending
    /\ pool_queries = <<>>
    /\ previous = None
    /\ response = None
    /\ metrics_data = None
    /\ pc = "start"
    /\ settings \in {[gql_endpoint |-> g] : g \in BOOLEAN}
    /\ request = [pool_address |-> "0xAB", blockchain |-> None]
    /\ upstream \in {[raw |-> r, store |-> s] : r \in RawPools, s \in AscendingStores}
    /\ clock = Epoch
    /\ current_pool = None
    /\ snapshots = <<>>
    /\ fifteen_days_ago_ts = 0
    /\ snapshot_15d_ago = None
    /\ pool_result = Pending

FetchCurrentPool ==
    /\ pc = "start"
    /\ \E v2 \in QueryOutcomes, v3 \in QueryOutcomes :
         LET found == GetCurrentPoolData(settings.gql_endpoint, request, v2, v3, upstream.raw)
         IN  IF found = None
             THEN /\ pc' = "failed"
                  /\ pool_result' = Failed("BalancerAPIError")
                  /\ UNCHANGED current_pool
             ELSE /\ pc' = "history"
                  /\ current_pool' = found
                  /\ UNCHANGED pool_result
    /\ UNCHANGED <<settings, request, upstream, clock, snapshots, fifteen_days_ago_ts,
                   snapshot_15d_ago, period_result, pool_addresses, ranking_by,
                   pools_metrics, attempts, multi_result,
                   pool_queries, previous, response, metrics_data>>

FetchHistory ==
    /\ pc = "history"
    /\ \E h \in HistoryOutcomes, drift \in 0..MaxDrift :
         LET got == GetPoolSnapshots(upstream.store, clock, HistoryDays,
                                     current_pool[1].api_version, h)
         IN  /\ clock' = clock + drift
             /\ IF got = None
                THEN /\ pc' = "failed"
                     /\ pool_result' = Failed("BalancerAPIError")
                     /\ UNCHANGED <<snapshots, fifteen_days_ago_ts>>
                ELSE /\ pc' = "locate"
                     /\ snapshots' = got[1]
                     /\ fifteen_days_ago_ts' = clock' - BaselineDays * SecondsPerDay
                     /\ UNCHANGED pool_result
    /\ UNCHANGED <<settings, request, upstream, current_pool, snapshot_15d_ago,
                   period_result, pool_addresses, ranking_by, pools_metrics,
                   attempts, multi_result,
                   pool_queries, previous, response, metrics_data>>

LocateAndReconcile ==
    /\ pc = "locate"
    /\ \E h \in HistoryOutcomes :
         LET got == GetPoolSnapshots(upstream.store, clock, LocatorDaysBack,
                                     current_pool[1].api_version, h)
         IN  IF got = None
             THEN /\ pc' = "failed"
                  /\ pool_result' = Failed("BalancerAPIError")
                  /\ UNCHANGED snapshot_15d_ago
             ELSE LET located == ClosestSnapshot(got[1], fifteen_days_ago_ts)
                  IN  /\ pc' = "done"
                      /\ snapshot_15d_ago' = located
                      /\ pool_result' = Returned(CalculateMetrics(
                             current_pool[1], request.pool_address, snapshots,
                             located, fifteen_days_ago_ts))
    /\ UNCHANGED <<settings, request, upstream, clock, current_pool, snapshots,
                   fifteen_days_ago_ts, period_result, pool_addresses, ranking_by,
                   pools_metrics, attempts, multi_result,
                   pool_queries, previous, response, metrics_data>>

\* the caller formats the PoolMetrics it got for the report
FormatForEmail ==
    /\ pc = "done"
    /\ pool_result.status = "ok"
    /\ metrics_data' = Some(FormatMetricsForEmail(pool_result.metrics[1]))
    /\ pc' = "formatted"
    /\ UNCHANGED <<settings, request, upstream, clock, current_pool, snapshots,
                   fifteen_days_ago_ts, snapshot_15d_ago, pool_result, period_result,
                   pool_addresses, ranking_by, pools_metrics, attempts, multi_result,
                   pool_queries, previous, response>>

NextPool == FetchCurrentPool \/ FetchHistory \/ LocateAndReconcile \/ FormatForEmail

SpecPool == InitPool /\ [][NextPool]_vars

(***************************************************************************)
(* SpecMulti: one call of calculate_multi_pool_metrics on a batch of       *)
(* 0..MaxPools addresses.  The pools are handled one after the other; for  *)
(* each the upstream gives one of the answers below.  BalancerAPI is       *)
(* configured with the legacy endpoint, so that pools of both schema       *)
(* versions occur.                                                         *)
(***************************************************************************)
RawPool(name, type, fee, tvl, volume24h, fees24h, items) ==
    [name |-> name, type |-> type, swapFee |-> fee, totalLiquidity |-> tvl,
     volume24h |-> volume24h, fees24h |-> fees24h, aprItems |-> items,
     tokens |-> TwoTokens]

Answer(v2, v3, raw, store, history) ==
    [v2 |-> v2, v3 |-> v3, raw |-> raw, store |-> store, history |-> history]

AprItem(type, apr) == [type |-> type, apr |-> apr]

Answers ==
    { \* found by neither path
      Answer("none", "error", RawPool("X", "WEIGHTED", Zero, 0, 0, 0, <<>>), <<>>, "ok"),
      \* v3, tvl 100, apr 0.10, estimated volume 30
      Answer("none", "found",
             RawPool("A", "WEIGHTED", Rat(1, 100), 100, 2, 1,
                     <<AprItem("SWAP_FEE", Rat(1, 10))>>), <<>>, "error"),
      \* v3, tvl 300, no apr, estimated volume 30
      Answer("error", "found",
             RawPool("B", "STABLE", Rat(3, 1000), 300, 2, 0, <<>>), <<>>, "ok"),
      \* v3 boosted, tvl 100, apr 0.20, estimated volume 60
      Answer("none", "found",
             RawPool("C", "BOOSTED", Rat(3, 1000), 100, 4, 0,
                     <<AprItem("IB_YIELD", Rat(1, 20)), AprItem("IB_YIELD", Rat(3, 20))>>),
             <<>>, "ok"),
      \* v2 with history: baseline 50, measured volume 90, fee-implied apr
      Answer("found", "none",
             RawPool("D", "Weighted", Rat(1, 100), 80, 0, 0, <<>>),
             <<Snapshot(Epoch - 20 * SecondsPerDay, 50, 10, 1),
               Snapshot(Epoch - 3 * SecondsPerDay, 80, 100, 5)>>, "ok"),
      \* v3 boosted, empty: no tvl, no volume
      Answer("none", "found",
             RawPool("E", "BOOSTED", Zero, 0, 0, 0,
                     <<AprItem("IB_YIELD", Rat(1, 5))>>), <<>>, "ok"),
      \* v2 whose snapshot query fails
      Answer("found", "found",
             RawPool("F", "WEIGHTED", Zero, 100, 0, 0, <<>>), <<>>, "error") }

Addresses == <<"0x01", "0x02", "0x03", "0x04", "0x05", "0x06", "0x07", "0x08">>

RankingMetrics == {"volume", "tvl_growth", "swap_fee", "rebalance_count", "boosted_apr"}

\* ranking_by: None, the default of ReportRequest, or every metric
RankingChoices == {None, Some({"volume", "tvl_growth"}), Some(RankingMetrics)}

\* `if ranking_by is None: ranking_by = []`
Requested(ranking) == IF ranking = None THEN {} ELSE ranking[1]

InitMulti ==
    /\ pc = "loop"
    /\ settings = [gql_endpoint |-> TRUE]
    /\ request = <<>>
    /\ upstream = <<>>
    /\ clock = Epoch
    /\ current_pool = None
    /\ snapshots = <<>>
    /\ fifteen_days_ago_ts = 0
    /\ snapshot_15d_ago = None
    /\ pool_result = Pending
    /\ period_result = None
    /\ pool_addresses \in {SubSeq(Addresses, 1, n) : n \in 0..MaxPools}
    /\ ranking_by \in RankingChoices
    /\ pools_metrics = <<>>
    /\ attempts = <<>>
    /\ multi_result = Pending
    /\ pool_queries = <<>>
    /\ previous = None
    /\ response = None
    /\ metrics_data = None

\* one turn of the loop: calculate_pool_metrics(address), appended or skipped
ProcessPool ==
    /\ pc = "loop"
    /\ Len(attempts) < Len(pool_addresses)
    /\ \E answer \in Answers :
         LET address == pool_addresses[Len(attempts) + 1]
             outcome == CalculatePoolMetrics(settings.gql_endpoint,
                                             [pool_address |-> address, blockchain |-> None],
                                             answer, clock)
         IN  /\ pools_metrics' = Collect(pools_metrics, outcome)
             /\ attempts' = Append(attempts, IF outcome.status = "ok" THEN "ok" ELSE "failed")
    /\ UNCHANGED <<pc, settings, request, upstream, clock, current_pool, snapshots,
                   fifteen_days_ago_ts, snapshot_15d_ago, pool_result, period_result,
                   pool_addresses, ranking_by, multi_result,
                   pool_queries, previous, response, metrics_data>>

\* after the loop: raise ValueError, or build the MultiPoolMetrics
Finish ==
    /\ pc = "loop"
    /\ Len(attempts) = Len(pool_addresses)
    /\ IF pools_metrics = <<>>
       THEN /\ pc' = "failed"
            /\ multi_result' = Failed("ValueError")
       ELSE /\ pc' = "done"
            /\ multi_result' = Returned(Aggregate(pools_metrics, Requested(ranking_by)))
    /\ UNCHANGED <<settings, request, upstream, clock, current_pool, snapshots,
                   fifteen_days_ago_ts, snapshot_15d_ago, pool_result, period_result,
                   pool_addresses, ranking_by, pools_metrics, attempts,
                   pool_queries, previous, response, metrics_data>>

NextMulti == ProcessPool \/ Finish

SpecMulti == InitMulti /\ [][NextMulti]_vars

(***************************************************************************)
(* SpecGateway: one call of get_current_pool_data, suspended at each of    *)
(* its upstream queries.  BalancerAPI was constructed with or without      *)
(* settings.balancer_gql_endpoint; the request carries an address in       *)
(* either letter case and possibly a chain hint.                           *)
(*   QueryV2   the legacy path, when its guard holds                       *)
(*   SkipV2    the guard of the legacy path does not hold                  *)
(*   QueryV3   the current API; raises BalancerAPIError when it finds      *)
(*             nothing                                                     *)
(***************************************************************************)
ChainHints == {None, Some("ethereum"), Some("Ethereum"), Some("arbitrum")}

GatewayRequests ==
    {[pool_address |-> a, blockchain |-> b] : a \in {"0xAB", "0xab"}, b \in ChainHints}

InitGateway ==
    /\ period_result = None
    /\ pool_addresses = <<>>
    /\ ranking_by = None
    /\ pools_metrics = <<>>
    /\ attempts = <<>>
    /\ multi_result = Pending
    /\ pool_queries = <<>>
    /\ previous = None
    /\ response = None
    /\ metrics_data = None
    /\ pc = "v2"
    /\ settings \in {[gql_endpoint |-> g] : g \in BOOLEAN}
    /\ request \in GatewayRequests
    /\ upstream \in {[raw |-> r, store |-> <<>>] : r \in RawPools}
    /\ clock = Epoch
    /\ current_pool = None
    /\ snapshots = <<>>
    /\ fifteen_days_ago_ts = 0
    /\ snapshot_15d_ago = None
    /\ pool_result = Pending

QueryV2 ==
    /\ pc = "v2"
    /\ TriesV2(settings.gql_endpoint, request.blockchain)
    /\ \E answer \in QueryOutcomes :
         /\ pool_queries' = Append(pool_queries, V2PoolQuery(request.pool_address, answer))
         /\ IF answer = "found"
            THEN /\ current_pool' = Some(V2Pool(upstream.raw, request))
                 /\ pc' = "returned"
            ELSE /\ UNCHANGED current_pool
                 /\ pc' = "v3"
    /\ UNCHANGED <<settings, request, upstream, clock, snapshots, fifteen_days_ago_ts,
                   snapshot_15d_ago, pool_result, period_result, pool_addresses,
                   ranking_by, pools_metrics, attempts, multi_result, previous, response, metrics_data>>

SkipV2 ==
    /\ pc = "v2"
    /\ ~TriesV2(settings.gql_endpoint, request.blockchain)
    /\ pc' = "v3"
    /\ UNCHANGED <<settings, request, upstream, clock, current_pool, snapshots,
                   fifteen_days_ago_ts, snapshot_15d_ago, pool_result, period_result,
                   pool_addresses, ranking_by, pools_metrics, attempts, multi_result,
                   pool_queries, previous, response, metrics_data>>

QueryV3 ==
    /\ pc = "v3"
    /\ \E answer \in QueryOutcomes :
         /\ pool_queries' = Append(pool_queries,
                                   V3PoolQuery(request.pool_address, request.blockchain, answer))
         /\ IF answer = "found"
            THEN /\ current_pool' = Some(StampV3(upstream.raw, request.pool_address,
                                                 BlockchainName(request.blockchain)))
                 /\ pc' = "returned"
            ELSE /\ UNCHANGED current_pool
                 /\ pc' = "raised"
    /\ UNCHANGED <<settings, request, upstream, clock, snapshots, fifteen_days_ago_ts,
                   snapshot_15d_ago, pool_result, period_result, pool_addresses,
                   ranking_by, pools_metrics, attempts, multi_result, previous, response, metrics_data>>

NextGateway == QueryV2 \/ SkipV2 \/ QueryV3

SpecGateway == InitGateway /\ [][NextGateway]_vars

(***************************************************************************)
(* SpecReport: one POST /report request with a single pool address,        *)
(* handled by generate_report (main.py).  The request is a ReportRequest;  *)
(* the upstream answers as in SpecMulti.                                   *)
(***************************************************************************)
\* the fields of the pydantic model ReportRequest
ReportRequestFields == {"pool_addresses", "recipient_email", "ranking_by"}

\* attribute access on a pydantic model: a name that is not a field raises
HasField(fields, name) == name \in fields

HTTP_200_OK == 200
HTTP_502_BAD_GATEWAY == 502
HTTP_500_INTERNAL_SERVER_ERROR == 500

\* what the body of the try block of generate_report ends with: "sent", or
\* the type of the exception that leaves it
ReportBody(fields, req, gql_endpoint, answer, now) ==
    IF ~HasField(fields, "user_id") THEN "AttributeError"
    ELSE LET pool_request == [pool_address |-> req.pool_addresses[1], blockchain |-> None]
             calculated == CalculatePoolMetrics(gql_endpoint, pool_request, answer, now)
             pool_data == GetCurrentPoolData(gql_endpoint, pool_request,
                                             answer.v2, answer.v3, answer.raw)
         IN  IF calculated.status # "ok" THEN calculated.status
             ELSE IF pool_data = None THEN "BalancerAPIError"
             ELSE IF ~HasField(fields, "telegram_chat_id") THEN "AttributeError"
             ELSE "sent"

\* the except clauses of generate_report
HttpStatus(outcome) ==
    CASE outcome = "sent" -> HTTP_200_OK
      [] outcome = "BalancerAPIError" -> HTTP_502_BAD_GATEWAY
      [] OTHER -> HTTP_500_INTERNAL_SERVER_ERROR

ReportRequests ==
    {[pool_addresses |-> <<a>>, recipient_email |-> "user@example.com", ranking_by |-> r] :
        a \in {"0xAB", "0xab", "0xCD"}, r \in RankingChoices}

InitReport ==
    /\ pc = "report"
    /\ settings \in {[gql_endpoint |-> g] : g \in BOOLEAN}
    /\ request \in ReportRequests
    /\ upstream \in Answers
    /\ clock = Epoch
    /\ current_pool = None
    /\ snapshots = <<>>
    /\ fifteen_days_ago_ts = 0
    /\ snapshot_15d_ago = None
    /\ pool_result = Pending
    /\ period_result = None
    /\ pool_addresses = <<>>
    /\ ranking_by = None
    /\ pools_metrics = <<>>
    /\ attempts = <<>>
    /\ multi_result = Pending
    /\ pool_queries = <<>>
    /\ previous = None
    /\ response = None
    /\ metrics_data = None

GenerateReport ==
    /\ pc = "report"
    /\ response' = Some(HttpStatus(ReportBody(ReportRequestFields, request,
                                              settings.gql_endpoint, upstream, clock)))
    /\ pc' = "responded"
    /\ UNCHANGED <<settings, request, upstream, clock, current_pool, snapshots,
                   fifteen_days_ago_ts, snapshot_15d_ago, pool_result, period_result,
                   pool_addresses, ranking_by, pools_metrics, attempts, multi_result,
                   pool_queries, previous, metrics_data>>

NextReport == GenerateReport

SpecReport == InitReport /\ [][NextReport]_vars

(***************************************************************************)
(* SpecTwice: calculate_pool_metrics invoked twice on the same             *)
(* MetricsCalculator, for the same request, against an upstream that gives *)
(* the same answers and with a clock that gives the same readings.         *)
(* `settings` is the state of the instance (the fields __init__ set);      *)
(* `previous` keeps what was there before the running invocation.          *)
(***************************************************************************)
ForgetfulApi(api) == [api EXCEPT !.gql_endpoint = FALSE]

\* the instance after a call: no method assigns to self outside __init__
ApiAfterCall(api) == api

TwiceRequests ==
    {[pool_address |-> a, blockchain |-> b] : a \in {"0xAB", "0xab"}, b \in ChainHints}

InitTwice ==
    /\ pc = "first"
    /\ settings \in {[gql_endpoint |-> g] : g \in BOOLEAN}
    /\ request \in TwiceRequests
    /\ upstream \in Answers
    /\ clock = Epoch
    /\ current_pool = None
    /\ snapshots = <<>>
    /\ fifteen_days_ago_ts = 0
    /\ snapshot_15d_ago = None
    /\ pool_result = Pending
    /\ period_result = None
    /\ pool_addresses = <<>>
    /\ ranking_by = None
    /\ pools_metrics = <<>>
    /\ attempts = <<>>
    /\ multi_result = Pending
    /\ pool_queries = <<>>
    /\ previous = None
    /\ response = None
    /\ metrics_data = None

Invoke ==
    /\ pc \in {"first", "second"}
    /\ previous' = Some([outcome |-> pool_result, api |-> settings])
    /\ pool_result' = CalculatePoolMetrics(settings.gql_endpoint, request, upstream, clock)
    /\ settings' = ApiAfterCall(settings)
    /\ pc' = IF pc = "first" THEN "second" ELSE "twice"
    /\ UNCHANGED <<request, upstream, clock, current_pool, snapshots,
                   fifteen_days_ago_ts, snapshot_15d_ago, period_result,
                   pool_addresses, ranking_by, pools_metrics, attempts, multi_result,
                   pool_queries, response, metrics_data>>

NextTwice == Invoke

SpecTwice == InitTwice /\ [][NextTwice]_vars

(***************************************************************************)
(* SpecReconcile: the synchronous part of calculate_pool_metrics (from the *)
(* extraction of the current metrics to the PoolMetrics) applied to        *)
(* bounded canonical pools.  The payloads go beyond what the two queries   *)
(* of the gateway select: dynamicData may hold totalApr and apr, the pool  *)
(* may hold totalShares and apr, a hook, and tokens with or without        *)
(* weights.                                                                *)
(***************************************************************************)
MaxAprItems == 2

\* a dict with the key `name` added when there is a value for it
WithField(rec, name, opt) == IF opt = None THEN rec ELSE (name :> opt[1]) @@ rec

CanonicalPool(type, tvl, fees24h, items, tokens) ==
    StampV3([name |-> "Pool", type |-> type, swapFee |-> Rat(3, 1000),
             totalLiquidity |-> tvl, volume24h |-> 2, fees24h |-> fees24h,
             aprItems |-> items, tokens |-> tokens],
            "0xAB", DefaultBlockchainName)

AprItemLists ==
    SeqsUpTo({AprItem("IB_YIELD", a) : a \in {Rat(-1, 10), Zero, Rat(1, 10), Rat(3, 20)}}
                 \cup {AprItem("SWAP_FEE", Rat(1, 20))},
             MaxAprItems)

\* pools that differ in where an APR can be read from
AprPools ==
    {LET base == CanonicalPool("STABLE", tvl, fees24h, items, TwoTokens)
         dd == WithField(WithField(base.dynamicData, "totalApr", total), "apr", scalar)
         pool == [base EXCEPT !.dynamicData = dd]
     IN  IF shares = None THEN pool
         ELSE WithField(WithField(pool, "totalShares", Some(1)), "apr", shares) :
        tvl \in {0, 100}, fees24h \in {0, 1}, items \in AprItemLists,
        total \in {None, Some(Zero), Some(Rat(1, 4))},
        scalar \in {None, Some(Zero), Some(Rat(1, 8))},
        shares \in {None, Some(Rat(1, 5))}}

\* pools that differ in type, tokens and hook
TypedPools ==
    {WithField(WithField(CanonicalPool(type, 100, 1, items, tokens), "hook", hook),
               "isCore", core) :
        type \in {"WEIGHTED", "Weighted", "STABLE", "BOOSTED", "GYROE", "LVR", "Unknown"},
        items \in AprItemLists,
        tokens \in {<<>>, TwoTokens,
                    <<Token("WETH", Some(Rat(50, 1))), Token("", Some(Rat(1, 2))),
                      Token("DAI", None)>>,
                    <<Token("DAI", None), Token("USDC", None)>>},
        hook \in {None, Some(None), Some(Some("StableSurge"))},
        core \in {None, Some(TRUE)}}

InitReconcile ==
    /\ pc = "reconcile"
    /\ settings = [gql_endpoint |-> FALSE]
    /\ request = [pool_address |-> "0xAB", blockchain |-> None]
    /\ upstream = <<>>
    /\ clock = Epoch
    /\ current_pool \in {Some(p) : p \in AprPools \cup TypedPools}
    /\ snapshots \in {<<>>,
                      <<Snapshot(T0 - 5 * SecondsPerDay, 50, 10, 1),
                        Snapshot(T0 + 12 * SecondsPerDay, 80, 100, 5)>>}
    /\ fifteen_days_ago_ts = T0
    /\ snapshot_15d_ago = None
    /\ pool_result = Pending
    /\ period_result = None
    /\ pool_addresses = <<>>
    /\ ranking_by = None
    /\ pools_metrics = <<>>
    /\ attempts = <<>>
    /\ multi_result = Pending
    /\ pool_queries = <<>>
    /\ previous = None
    /\ response = None
    /\ metrics_data = None

Reconcile ==
    /\ pc = "reconcile"
    /\ pool_result' = Returned(CalculateMetrics(current_pool[1], request.pool_address,
                                                snapshots, snapshot_15d_ago,
                                                fifteen_days_ago_ts))
    /\ pc' = "done"
    /\ UNCHANGED <<settings, request, upstream, clock, current_pool, snapshots,
                   fifteen_days_ago_ts, snapshot_15d_ago, period_result,
                   pool_addresses, ranking_by, pools_metrics, attempts, multi_result,
                   pool_queries, previous, response, metrics_data>>

NextReconcile == Reconcile

SpecReconcile == InitReconcile /\ [][NextReconcile]_vars

(***************************************************************************)
(* SpecHistory: get_v3_pool_snapshots applied to every bounded response of *)
(* poolGetSnapshots.  The query fixes no order, so the buckets come in any *)
(* order; their volume24h and fees24h are not negative.                    *)
(***************************************************************************)
\* a bucket of poolGetSnapshots: swapVolume and swapFees stand for its
\* volume24h and fees24h
Buckets ==
    {Snapshot(t, 100, v, f) :
        t \in {Epoch - 31 * SecondsPerDay, Epoch - 20 * SecondsPerDay,
               Epoch - 3 * SecondsPerDay, Epoch - SecondsPerDay},
        v \in {0, 5}, f \in {0, 2}}

InitHistory ==
    /\ pc = "fetch"
    /\ settings = [gql_endpoint |-> FALSE]
    /\ request = [pool_address |-> "0xAB", blockchain |-> None]
    /\ upstream \in {[store |-> s] : s \in SeqsUpTo(Buckets, MaxPeriodSnaps)}
    /\ clock = Epoch
    /\ current_pool = None
    /\ snapshots = <<>>
    /\ fifteen_days_ago_ts = 0
    /\ snapshot_15d_ago = None
    /\ pool_result = Pending
    /\ period_result = None
    /\ pool_addresses = <<>>
    /\ ranking_by = None
    /\ pools_metrics = <<>>
    /\ attempts = <<>>
    /\ multi_result = Pending
    /\ pool_queries = <<>>
    /\ previous = None
    /\ response = None
    /\ metrics_data = None

FetchV3History ==
    /\ pc = "fetch"
    /\ \E h \in HistoryOutcomes :
         snapshots' = V3Snapshots(upstream.store, clock, HistoryDays, h)
    /\ pc' = "fetched"
    /\ UNCHANGED <<settings, request, upstream, clock, current_pool,
                   fifteen_days_ago_ts, snapshot_15d_ago, pool_result, period_result,
                   pool_addresses, ranking_by, pools_metrics, attempts, multi_result,
                   pool_queries, previous, response, metrics_data>>

NextHistory == FetchV3History

SpecHistory == InitHistory /\ [][NextHistory]_vars

(***************************************************************************)
(* SpecBatch: calculate_multi_pool_metrics with every upstream query as a  *)
(* suspension point.  `attempts` holds, for each pool whose pipeline was   *)
(* started, the query it is suspended in or how it ended ("ok" or the type *)
(* of the exception); `pool_queries` holds every query issued, with        *)
(* "pending" for the response of a query that is in flight.  The task may  *)
(* be cancelled while it is suspended.                                     *)
(*   StartPool    the loop calls calculate_pool_metrics(address), which    *)
(*                runs up to its first query                               *)
(*   Respond      the pending query is answered and the pipeline runs up   *)
(*                to its next query, its return or its exception           *)
(*   Cancel       CancelledError is raised at the pending query            *)
(*   FinishBatch  the rest of calculate_multi_pool_metrics after the loop  *)
(***************************************************************************)
MaxBatch == 2

\* the awaits of one calculate_pool_metrics call
Stages == {"pool_v2", "pool_v3", "history_id", "history", "locate_id", "locate"}

\* poolSnapshots: variables = {"poolId": pool_id.lower(), ...}; pool_id is
\* <<address>> for the bare address and the id of the pool otherwise
V2SnapshotsQuery(pool_id, answer) ==
    Query("v2_subgraph", "poolSnapshots", <<Lower(pool_id[1])>> \o Tail(pool_id), None, answer)

\* poolGetSnapshots: variables = {"id": pool_address.lower(), "chain": api_chain, ...}
V3SnapshotsQuery(pool_address, blockchain, answer) ==
    Query("v3_api", "poolGetSnapshots", Lower(pool_address), Some(ApiChain(blockchain)), answer)

\* the outcomes of running a coroutine up to its next await
Suspend(stage, query, pool, snaps, ts) ==
    [kind |-> "suspended", stage |-> stage, query |-> query, pool |-> pool,
     snaps |-> snaps, ts |-> ts]
Raise(error) == [kind |-> "raised", error |-> error]
Return(metrics) == [kind |-> "returned", metrics |-> metrics]

\* asyncio.CancelledError derives from BaseException: `except Exception`
\* catches every error of the model but that one
CatchesEverything(error) == TRUE

IsException(error) == error # "CancelledError"

NoAwait(stages) == TRUE

\* `metrics = await self.calculate_pool_metrics(address)`: the loop goes on
\* when the pipelines it started have ended
Awaited(stages) == \A i \in 1..Len(stages) : stages[i] \notin Stages

\* get_current_pool_data up to its first query
EnterPool(gql_endpoint, req) ==
    IF TriesV2(gql_endpoint, req.blockchain)
    THEN Suspend("pool_v2", V2PoolQuery(req.pool_address, "pending"), None, <<>>, 0)
    ELSE Suspend("pool_v3", V3PoolQuery(req.pool_address, req.blockchain, "pending"),
                 None, <<>>, 0)

\* get_pool_snapshots up to its first query; `call` is "history" or "locate"
EnterSnapshots(call, gql_endpoint, req, pool, snaps, ts) ==
    IF pool[1].api_version = "v3"
    THEN Suspend(call, V3SnapshotsQuery(req.pool_address, req.blockchain, "pending"),
                 pool, snaps, ts)
    ELSE IF gql_endpoint
    THEN Suspend(IF call = "history" THEN "history_id" ELSE "locate_id",
                 V2PoolQuery(req.pool_address, "pending"), pool, snaps, ts)
    ELSE Suspend(call, V2SnapshotsQuery(<<req.pool_address>>, "pending"), pool, snaps, ts)

\* what the subgraph holds for a pool id: nothing for a bare address
StoreOf(up, query) ==
    IF query.query = "poolSnapshots" /\ Len(query.id) = 1 THEN <<>> ELSE up.store

\* calculate_pool_metrics from the answer to its pending query up to its
\* next query, its return or its exception
PipelineStep(stage, answer, query, gql_endpoint, req, pool, snaps, ts, up, now) ==
    CASE stage = "pool_v2" ->
            IF answer = "found"
            THEN EnterSnapshots("history", gql_endpoint, req, Some(V2Pool(up.raw, req)), snaps, ts)
            ELSE Suspend("pool_v3", V3PoolQuery(req.pool_address, req.blockchain, "pending"),
                         pool, snaps, ts)
      [] stage = "pool_v3" ->
            IF answer = "found"
            THEN EnterSnapshots("history", gql_endpoint, req,
                                Some(StampV3(up.raw, req.pool_address,
                                             BlockchainName(req.blockchain))),
                                snaps, ts)
            ELSE Raise("BalancerAPIError")
      [] stage \in {"history_id", "locate_id"} ->
            Suspend(IF stage = "history_id" THEN "history" ELSE "locate",
                    V2SnapshotsQuery(IF answer = "found"
                                     THEN NormalizeV2(up.raw, req.pool_address).id
                                     ELSE <<req.pool_address>>, "pending"),
                    pool, snaps, ts)
      [] stage = "history" ->
            LET got == GetPoolSnapshots(StoreOf(up, query), now, HistoryDays,
                                        pool[1].api_version, answer)
            IN  IF got = None THEN Raise("BalancerAPIError")
                ELSE EnterSnapshots("locate", gql_endpoint, req, pool, got[1],
                                    now - BaselineDays * SecondsPerDay)
      [] stage = "locate" ->
            LET got == GetPoolSnapshots(StoreOf(up, query), now, LocatorDaysBack,
                                        pool[1].api_version, answer)
            IN  IF got = None THEN Raise("BalancerAPIError")
                ELSE Return(CalculateMetrics(pool[1], req.pool_address, snaps,
                                             ClosestSnapshot(got[1], ts), ts))

InitBatch ==
    /\ pc = "loop"
    /\ settings \in {[gql_endpoint |-> g] : g \in BOOLEAN}
    /\ request = <<>>
    /\ upstream = [raw |-> RawPool("D", "Weighted", Rat(1, 100), 80, 2, 1, <<>>),
                   store |-> <<Snapshot(Epoch - 20 * SecondsPerDay, 50, 10, 1),
                               Snapshot(Epoch - 3 * SecondsPerDay, 80, 100, 5)>>]
    /\ clock = Epoch
    /\ current_pool = None
    /\ snapshots = <<>>
    /\ fifteen_days_ago_ts = 0
    /\ snapshot_15d_ago = None
    /\ pool_result = Pending
    /\ period_result = None
    /\ pool_addresses \in {SubSeq(Addresses, 1, n) : n \in 1..MaxBatch}
    /\ ranking_by = None
    /\ pools_metrics = <<>>
    /\ attempts = <<>>
    /\ multi_result = Pending
    /\ pool_queries = <<>>
    /\ previous = None
    /\ response = None
    /\ metrics_data = None

Answered(queries, answer) == [queries EXCEPT ![Len(queries)].response = answer]

\* the running pipeline got to `step`; `answer` is what its pending query
\* ended with
Apply(step, answer) ==
    CASE step.kind = "suspended" ->
            /\ attempts' = [attempts EXCEPT ![Len(attempts)] = step.stage]
            /\ pool_queries' = Append(Answered(pool_queries, answer), step.query)
            /\ current_pool' = step.pool
            /\ snapshots' = step.snaps
            /\ fifteen_days_ago_ts' = step.ts
            /\ UNCHANGED <<pc, pools_metrics, multi_result>>
      [] step.kind = "returned" ->
            /\ attempts' = [attempts EXCEPT ![Len(attempts)] = "ok"]
            /\ pool_queries' = Answered(pool_queries, answer)
            /\ pools_metrics' = Append(pools_metrics, step.metrics)
            /\ UNCHANGED <<pc, multi_result, current_pool, snapshots, fifteen_days_ago_ts>>
      [] step.kind = "raised" ->
            /\ attempts' = [attempts EXCEPT ![Len(attempts)] = step.error]
            /\ pool_queries' = Answered(pool_queries, answer)
            /\ IF IsException(step.error)
               THEN UNCHANGED <<pc, multi_result>>
               ELSE /\ pc' = "cancelled"
                    /\ multi_result' = Failed(step.error)
            /\ UNCHANGED <<pools_metrics, current_pool, snapshots, fifteen_days_ago_ts>>

StartPool ==
    /\ pc = "loop"
    /\ Len(attempts) < Len(pool_addresses)
    /\ Awaited(attempts)
    /\ LET req == [pool_address |-> pool_addresses[Len(attempts) + 1], blockchain |-> None]
           step == EnterPool(settings.gql_endpoint, req)
       IN  /\ request' = req
           /\ attempts' = Append(attempts, step.stage)
           /\ pool_queries' = Append(pool_queries, step.query)
           /\ current_pool' = step.pool
           /\ snapshots' = step.snaps
           /\ fifteen_days_ago_ts' = step.ts
    /\ UNCHANGED <<pc, settings, upstream, clock, snapshot_15d_ago, pool_result,
                   period_result, pool_addresses, ranking_by, pools_metrics,
                   multi_result, previous, response, metrics_data>>

Suspended == pc = "loop" /\ attempts # <<>> /\ attempts[Len(attempts)] \in Stages

Respond ==
    /\ Suspended
    /\ \E answer \in IF attempts[Len(attempts)] \in {"history", "locate"}
                       THEN HistoryOutcomes ELSE QueryOutcomes :
         Apply(PipelineStep(attempts[Len(attempts)], answer, pool_queries[Len(pool_queries)],
                            settings.gql_endpoint, request, current_pool, snapshots,
                            fifteen_days_ago_ts, upstream, clock),
               answer)
    /\ UNCHANGED <<settings, request, upstream, clock, snapshot_15d_ago, pool_result,
                   period_result, pool_addresses, ranking_by, previous, response,
                   metrics_data>>

Cancel ==
    /\ Suspended
    /\ Apply(Raise("CancelledError"), "cancelled")
    /\ UNCHANGED <<settings, request, upstream, clock, snapshot_15d_ago, pool_result,
                   period_result, pool_addresses, ranking_by, previous, response,
                   metrics_data>>

FinishBatch ==
    /\ pc = "loop"
    /\ Len(attempts) = Len(pool_addresses)
    /\ Awaited(attempts)
    /\ IF pools_metrics = <<>>
       THEN /\ pc' = "failed"
            /\ multi_result' = Failed("ValueError")
       ELSE /\ pc' = "done"
            /\ multi_result' = Returned(Aggregate(pools_metrics, Requested(ranking_by)))
    /\ UNCHANGED <<settings, request, upstream, clock, current_pool, snapshots,
                   fifteen_days_ago_ts, snapshot_15d_ago, pool_result, period_result,
                   pool_addresses, ranking_by, pools_metrics, attempts,
                   pool_queries, previous, response, metrics_data>>

NextBatch == StartPool \/ Respond \/ Cancel \/ FinishBatch

SpecBatch == InitBatch /\ [][NextBatch]_vars

(***************************************************************************)
(* C1. Whatever the snapshot list and the window start,                    *)
(* _calculate_period_metrics returns a period volume and period fees that  *)
(* are >= 0, and a counter of the latest snapshot that is lower than the   *)
(* counter of the baseline snapshot yields exactly 0.                      *)
(***************************************************************************)
PeriodInWindow == PeriodSnapshots(snapshots, fifteen_days_ago_ts) # <<>>

C1_PeriodNonNegative ==
    (pc = "done" /\ period_result # None) =>
        LET r == period_result[1]
        IN  /\ r.volume.num >= 0
            /\ r.fees.num >= 0
            /\ PeriodInWindow =>
                 LET latest == PeriodLatest(snapshots, fifteen_days_ago_ts)
                     base == PeriodBaseline(snapshots, fifteen_days_ago_ts)
                 IN  /\ latest.swapVolume < base.swapVolume => r.volume = Zero
                     /\ latest.swapFees < base.swapFees => r.fees = Zero

\* a run in which the latest counter is below the baseline counter
C1_Witness ==
    /\ pc = "done"
    /\ period_result # None
    /\ PeriodInWindow
    /\ PeriodLatest(snapshots, fifteen_days_ago_ts).swapVolume
         < PeriodBaseline(snapshots, fifteen_days_ago_ts).swapVolume
    /\ period_result[1].volume = Zero

(***************************************************************************)
(* C2. As claimed: for every pool, of either schema version, whose fetched *)
(* 30-day history is empty, calculate_pool_metrics returns tvl_15_days_ago *)
(* = tvl_current, tvl_change_percent = 0, volume_15_days = volume24h * 15  *)
(* and fees_15_days = fees24h * 15.                                        *)
(***************************************************************************)
PoolReturned == pc = "done" /\ pool_result.status = "ok"
Metrics == pool_result.metrics[1]
EmptyHistory == PoolReturned /\ snapshots = <<>>

EstimatedFrom24h ==
    /\ Metrics.tvl_change_percent = Zero
    /\ Metrics.volume_15_days = Float(current_pool[1].dynamicData.volume24h * 15)
    /\ Metrics.fees_15_days = Float(current_pool[1].dynamicData.fees24h * 15)

C2_AsClaimed ==
    EmptyHistory =>
        /\ Metrics.tvl_15_days_ago = Metrics.tvl_current
        /\ EstimatedFrom24h

(***************************************************************************)
(* C2, amended.  For every pool whose fetched 30-day history is empty,     *)
(* tvl_change_percent = 0, volume_15_days = volume24h * 15 and             *)
(* fees_15_days = fees24h * 15; tvl_15_days_ago equals tvl_current for a   *)
(* v3 pool and is 0 for a v2 pool.                                         *)
(***************************************************************************)
C2_EmptyHistoryFallback ==
    EmptyHistory =>
        /\ EstimatedFrom24h
        /\ current_pool[1].api_version = "v3" =>
             Metrics.tvl_15_days_ago = Metrics.tvl_current
        /\ current_pool[1].api_version = "v2" =>
             Metrics.tvl_15_days_ago = Zero

\* a v3 pool with live 24h figures and no history
C2_Witness ==
    /\ EmptyHistory
    /\ current_pool[1].api_version = "v3"
    /\ Metrics.tvl_current = Float(1000000)
    /\ Metrics.tvl_15_days_ago = Float(1000000)
    /\ Metrics.volume_15_days = Float(30000)
    /\ Metrics.fees_15_days = Float(300)

(***************************************************************************)
(* C3. Whenever the fetched 30-day history holds a snapshot within 86400   *)
(* seconds of now - 15 days, tvl_15_days_ago is the liquidity of a         *)
(* snapshot nearest to that target; the oldest snapshot is the baseline    *)
(* only when the history holds no such snapshot.                           *)
(***************************************************************************)
Distance(s) == Abs(s.timestamp - fifteen_days_ago_ts)
NearTarget == {i \in 1..Len(snapshots) : Distance(snapshots[i]) <= 86400}
NearestToTarget ==
    {i \in NearTarget : \A j \in NearTarget : Distance(snapshots[i]) <= Distance(snapshots[j])}

C3_NearestBaseline ==
    (PoolReturned /\ snapshots # <<>>) =>
        IF NearTarget # {}
        THEN \E i \in NearestToTarget :
                 Metrics.tvl_15_days_ago = Float(snapshots[i].liquidity)
        ELSE Metrics.tvl_15_days_ago = Float(snapshots[1].liquidity)

(***************************************************************************)
(* C4. End to end: current TVL 1,000,000, a baseline snapshot at           *)
(* now - 15 days with liquidity 800,000 and cumulative swapVolume 50,000,  *)
(* a latest snapshot with cumulative swapVolume 90,000: then               *)
(* tvl_change_percent = 25 and volume_15_days = 40,000, whatever other     *)
(* snapshots the history holds.                                            *)
(***************************************************************************)
C4_Scenario ==
    /\ PoolReturned
    /\ Metrics.tvl_current = Float(1000000)
    /\ \E i \in 1..Len(snapshots) :
           /\ snapshots[i].timestamp = fifteen_days_ago_ts
           /\ snapshots[i].liquidity = 800000
           /\ snapshots[i].swapVolume = 50000
    /\ \E i \in 1..Len(snapshots) :
           /\ \A j \in 1..Len(snapshots) : snapshots[j].timestamp <= snapshots[i].timestamp
           /\ snapshots[i].swapVolume = 90000

C4_EndToEnd ==
    C4_Scenario =>
        /\ Metrics.tvl_change_percent = Float(25)
        /\ Metrics.volume_15_days = Float(40000)

(***************************************************************************)
(* C5. Among the snapshots it is given, the locator accepts a snapshot     *)
(* exactly 86400 seconds from the target and rejects one at 86401 seconds; *)
(* it returns None when no snapshot is within 86400 seconds, and otherwise *)
(* a snapshot of the list that minimises the distance to the target.       *)
(***************************************************************************)
Within(d) == {i \in 1..Len(snapshots) : Distance(snapshots[i]) <= d}

C5_LocatorTolerance ==
    pc = "done" =>
        /\ Within(86400) = {} => snapshot_15d_ago = None
        /\ Within(86400) # {} =>
             /\ snapshot_15d_ago # None
             /\ \E i \in Within(86400) :
                    /\ snapshot_15d_ago[1] = snapshots[i]
                    /\ \A j \in 1..Len(snapshots) :
                           Distance(snapshots[i]) <= Distance(snapshots[j])
        /\ snapshot_15d_ago # None => Distance(snapshot_15d_ago[1]) # 86401

\* the list holds a snapshot at 86401 seconds before one at exactly 86400
\* seconds, and the latter is returned
C5_Witness ==
    /\ pc = "done"
    /\ Len(snapshots) = 2
    /\ Distance(snapshots[1]) = 86401
    /\ Distance(snapshots[2]) = 86400
    /\ snapshot_15d_ago = Some(snapshots[2])

(***************************************************************************)
(* C6. calculate_multi_pool_metrics returns a result exactly when at least *)
(* one pool was calculated; its pools are then the input addresses whose   *)
(* calculation succeeded, in input order, every address having been tried; *)
(* it raises the no-valid-metrics error exactly when every pool failed.    *)
(***************************************************************************)
MultiReturned == pc = "done" /\ multi_result.status = "ok"
Result == multi_result.metrics[1]
Succeeded == {i \in 1..Len(attempts) : attempts[i] = "ok"}
Position(address) == CHOOSE i \in 1..Len(pool_addresses) : pool_addresses[i] = address
SucceededAddresses ==
    SelectSeq(pool_addresses, LAMBDA a : Position(a) \in Succeeded)

C6_BatchOutcome ==
    pc # "loop" =>
        /\ Len(attempts) = Len(pool_addresses)
        /\ multi_result.status = "ok" <=> Succeeded # {}
        /\ multi_result.status = "ValueError" <=> Succeeded = {}
        /\ multi_result.status = "ok" =>
             [k \in 1..Len(Result.pools) |-> Result.pools[k].pool_address] = SucceededAddresses

\* a batch whose second pool failed, between two that were calculated
C6_Witness ==
    /\ MultiReturned
    /\ attempts = <<"ok", "failed", "ok">>
    /\ Len(Result.pools) = 2
    /\ Result.pools[1].pool_address = pool_addresses[1]
    /\ Result.pools[2].pool_address = pool_addresses[3]

(***************************************************************************)
(* C7. total_apr is the sum of apr_current * tvl_current over the pools    *)
(* with a known APR, divided by the sum of tvl_current over all calculated *)
(* pools, and 0 when that total is 0.  For A(100, 0.10), B(300, null),     *)
(* C(100, 0.20) it is 0.06.                                                *)
(***************************************************************************)
TvlAprProfile ==
    [k \in 1..Len(Result.pools) |->
        <<Result.pools[k].tvl_current, Result.pools[k].apr_current>>]

AllTvl == Sum([k \in 1..Len(Result.pools) |-> Result.pools[k].tvl_current])
AprTimesTvl ==
    Sum([k \in 1..Len(Result.pools) |->
            IF Result.pools[k].apr_current # None
            THEN RMul(Result.pools[k].apr_current[1], Result.pools[k].tvl_current)
            ELSE Zero])

ProfileABC ==
    <<<<Float(100), Some(Rat(1, 10))>>, <<Float(300), None>>, <<Float(100), Some(Rat(2, 10))>>>>
ProfileAB == <<<<Float(100), Some(Rat(1, 10))>>, <<Float(300), None>>>>

C7_TotalApr ==
    MultiReturned =>
        /\ RPos(AllTvl) => RMul(Result.total_apr, AllTvl) = AprTimesTvl
        /\ AllTvl = Zero => Result.total_apr = Zero
        /\ TvlAprProfile = ProfileABC => Result.total_apr = Rat(6, 100)

C7_Witness ==
    /\ MultiReturned
    /\ TvlAprProfile = ProfileABC
    /\ Result.total_apr = Rat(6, 100)

(***************************************************************************)
(* C8. As claimed: for the batch A(tvl 100, apr 0.10), B(tvl 300, apr      *)
(* null) the total_apr equals 0.10.                                        *)
(***************************************************************************)
C8_AsClaimed ==
    (MultiReturned /\ TvlAprProfile = ProfileAB) => Result.total_apr = Rat(10, 100)

(***************************************************************************)
(* C8, amended.  For that batch the total_apr equals 0.025, that is        *)
(* 0.10 * 100 / 400: the TVL of B counts in the denominator.               *)
(***************************************************************************)
C8_DilutedApr ==
    (MultiReturned /\ TvlAprProfile = ProfileAB) => Result.total_apr = Rat(25, 1000)

C8_Witness ==
    /\ MultiReturned
    /\ TvlAprProfile = ProfileAB
    /\ Result.total_apr = Rat(1, 40)

(***************************************************************************)
(* C9. Each ranking list has at most 3 entries, is sorted in               *)
(* non-increasing order of its ranking value, holds the highest-valued     *)
(* eligible pools, and orders pools of equal value by their position in    *)
(* the input address list.                                                 *)
(***************************************************************************)
EntryPosition(entry) ==
    Position((CHOOSE p \in {Result.pools[i] : i \in 1..Len(Result.pools)} :
                  p.pool_url = entry.pool_url).pool_address)

Listed(list, p) == \E k \in 1..Len(list) : list[k].pool_url = p.pool_url

RankingOk(list, eligible, value(_)) ==
    /\ Len(list) <= 3
    /\ Len(list) = Min(3, Cardinality(eligible))
    /\ \A k \in 1..Len(list) :
           \E p \in eligible : p.pool_url = list[k].pool_url /\ list[k].value = value(p)
    /\ \A k, l \in 1..Len(list) : k < l =>
           /\ list[k].pool_url # list[l].pool_url
           /\ RLeq(list[l].value, list[k].value)
           /\ list[k].value = list[l].value => EntryPosition(list[k]) < EntryPosition(list[l])
    /\ \A p \in eligible : ~Listed(list, p) =>
           \A k \in 1..Len(list) :
               /\ RLeq(value(p), list[k].value)
               /\ value(p) = list[k].value => EntryPosition(list[k]) < Position(p.pool_address)

AllPools == {Result.pools[i] : i \in 1..Len(Result.pools)}
VolumeOf(p) == p.volume_15_days
GrowthOf(p) == RSub(p.tvl_current, p.tvl_15_days_ago)
SwapFeeOf(p) == p.swap_fee
BoostedAprOf(p) == p.boosted_apr[1]
RebalanceCountOf(p) == Float(p.rebalance_count_15d[1])

C9_Rankings ==
    MultiReturned =>
        /\ RankingOk(Result.top_3_by_volume, AllPools, VolumeOf)
        /\ RankingOk(Result.top_3_by_tvl, AllPools, GrowthOf)
        /\ \A key \in DOMAIN Result.custom_rankings :
               CASE key = "swap_fee" ->
                        RankingOk(Result.custom_rankings[key], AllPools, SwapFeeOf)
                 [] key = "boosted_apr" ->
                        RankingOk(Result.custom_rankings[key],
                                  {p \in AllPools : p.boosted_apr # None}, BoostedAprOf)
                 [] key = "rebalance_count" ->
                        RankingOk(Result.custom_rankings[key],
                                  {p \in AllPools : p.rebalance_count_15d # None},
                                  RebalanceCountOf)
                 [] OTHER -> FALSE
        /\ "swap_fee" \in Requested(ranking_by) => "swap_fee" \in DOMAIN Result.custom_rankings

\* five pools; the second and third volume entries tie, as do the first two
\* boosted-APR entries
C9_Witness ==
    /\ MultiReturned
    /\ Len(Result.pools) = 5
    /\ Len(Result.top_3_by_volume) = 3
    /\ Result.top_3_by_volume[2].value = Result.top_3_by_volume[3].value
    /\ EntryPosition(Result.top_3_by_volume[2]) < EntryPosition(Result.top_3_by_volume[3])
    /\ \E p \in AllPools : ~Listed(Result.top_3_by_volume, p)
                           /\ p.volume_15_days = Result.top_3_by_volume[3].value
    /\ "boosted_apr" \in DOMAIN Result.custom_rankings
    /\ Len(Result.custom_rankings["boosted_apr"]) >= 2
    /\ Result.custom_rankings["boosted_apr"][1].value = Result.custom_rankings["boosted_apr"][2].value

(***************************************************************************)
(* C10. As claimed: every batch of 5 requested addresses yields a          *)
(* top_3_by_volume with exactly 3 entries, strictly descending by volume.  *)
(***************************************************************************)
C10_AsClaimed ==
    (pc # "loop" /\ Len(pool_addresses) = 5) =>
        /\ multi_result.status = "ok"
        /\ Len(Result.top_3_by_volume) = 3
        /\ \A k \in 1..2 : RLess(Result.top_3_by_volume[k + 1].value,
                                 Result.top_3_by_volume[k].value)

(***************************************************************************)
(* C10, amended.  A batch of 5 requested addresses of which at least one   *)
(* is calculated yields a top_3_by_volume with min(3, calculated pools)    *)
(* entries, so exactly 3 when at least 3 pools are calculated, in          *)
(* non-increasing order of volume; neighbours are strictly descending      *)
(* unless their pools have the same volume.                                *)
(***************************************************************************)
C10_TopThreeOfFive ==
    (MultiReturned /\ Len(pool_addresses) = 5) =>
        LET top == Result.top_3_by_volume
        IN  /\ Len(top) = Min(3, Cardinality(Succeeded))
            /\ Cardinality(Succeeded) >= 3 => Len(top) = 3
            /\ \A k \in 1..(Len(top) - 1) : RLeq(top[k + 1].value, top[k].value)
            /\ \A k \in 1..Len(top) :
                   \E p \in AllPools : p.pool_url = top[k].pool_url
                                       /\ p.volume_15_days = top[k].value

\* five pools, all calculated, the two largest volumes equal
C10_Witness ==
    /\ MultiReturned
    /\ Len(pool_addresses) = 5
    /\ Cardinality(Succeeded) = 5
    /\ Len(Result.top_3_by_volume) = 3
    /\ Result.top_3_by_volume[1].value = Result.top_3_by_volume[2].value
    /\ RLess(Result.top_3_by_volume[3].value, Result.top_3_by_volume[2].value)

(***************************************************************************)
(* C11. The percentage of every top_3_by_volume entry is the pool's        *)
(* volume_15_days divided by the sum of volume_15_days over all calculated *)
(* pools of the batch (not only the listed ones), times 100; when that sum *)
(* is 0 every percentage is 0.                                             *)
(***************************************************************************)
BatchVolume == Sum([k \in 1..Len(Result.pools) |-> Result.pools[k].volume_15_days])

C11_VolumeShare ==
    MultiReturned =>
        \A k \in 1..Len(Result.top_3_by_volume) :
            LET entry == Result.top_3_by_volume[k]
            IN  /\ \E p \in AllPools : p.pool_url = entry.pool_url
                                       /\ p.volume_15_days = entry.value
                /\ RPos(BatchVolume) =>
                      RMul(entry.percentage, BatchVolume) = RMul(entry.value, Float(100))
                /\ ~RPos(BatchVolume) => entry.percentage = Zero

\* five pools with volumes 90, 60, 30, 30, 30: the three listed shares are
\* 37.5 %, 25 % and 12.5 % and do not add up to 100 %
C11_Witness ==
    /\ MultiReturned
    /\ Len(Result.pools) = 5
    /\ BatchVolume = Float(240)
    /\ Len(Result.top_3_by_volume) = 3
    /\ Result.top_3_by_volume[1].percentage = Rat(75, 2)
    /\ Result.top_3_by_volume[2].percentage = Float(25)
    /\ Result.top_3_by_volume[3].percentage = Rat(25, 2)

(***************************************************************************)
(* C12. get_current_pool_data raises the pool-not-found error only after   *)
(* every path applicable to the request (the legacy subgraph for a request *)
(* on the default chain, the current API for every request) has been       *)
(* attempted and none returned a pool; an exception or an empty result in  *)
(* the legacy path is never fatal and is always followed by an attempt on  *)
(* the current API; a pool returned by any path is returned to the caller. *)
(***************************************************************************)
DefaultChainRequest == ApiChain(request.blockchain) = DefaultChain
GatewayEnded == pc \in {"returned", "raised"}
Sent(url) == {k \in 1..Len(pool_queries) : pool_queries[k].url = url}

C12_AllPathsTried ==
    /\ pc = "raised" =>
          /\ Sent("v3_api") # {}
          /\ DefaultChainRequest => Sent("v2_subgraph") # {}
          /\ \A k \in 1..Len(pool_queries) : pool_queries[k].response # "found"
    /\ GatewayEnded =>
          \A k \in Sent("v2_subgraph") :
              pool_queries[k].response # "found" =>
                  /\ k < Len(pool_queries)
                  /\ pool_queries[k + 1].url = "v3_api"
    /\ \A k \in 1..Len(pool_queries) :
          pool_queries[k].response = "found" =>
              /\ pc = "returned"
              /\ current_pool # None
              /\ current_pool[1].address = pool_queries[k].id
              /\ current_pool[1].api_version =
                     (IF pool_queries[k].url = "v2_subgraph" THEN "v2" ELSE "v3")

(***************************************************************************)
(* C13. For a request on the default chain (no chain hint, or ethereum),   *)
(* get_current_pool_data always queries the legacy subgraph first and      *)
(* queries the current API only if the legacy query found no pool or       *)
(* failed; for a request on any other chain it never queries the legacy    *)
(* subgraph.                                                               *)
(***************************************************************************)
C13_LegacyFirst ==
    /\ DefaultChainRequest =>
          /\ pool_queries # <<>> => pool_queries[1].url = "v2_subgraph"
          /\ pc # "v2" => Sent("v2_subgraph") # {}
          /\ \A k \in Sent("v3_api") :
                 /\ k > 1
                 /\ pool_queries[1].response \in {"none", "error"}
    /\ ~DefaultChainRequest => Sent("v2_subgraph") = {}

(***************************************************************************)
(* C14. For a v3 pool the history fetch never raises: a failing history    *)
(* endpoint gives an empty list, as does an endpoint without snapshots, so *)
(* calculate_pool_metrics for a v3 pool found by the gateway never fails   *)
(* and, the list being empty, returns a PoolMetrics estimated from the 24h *)
(* figures.                                                                *)
(***************************************************************************)
FoundV3 == current_pool # None /\ current_pool[1].api_version = "v3"

C14_V3HistoryNonFatal ==
    FoundV3 =>
        /\ pc # "failed"
        /\ pool_result.status # "BalancerAPIError"
        /\ \A days_back \in {HistoryDays, LocatorDaysBack} :
               GetPoolSnapshots(upstream.store, clock, days_back, "v3", "error") = Some(<<>>)
        /\ pc = "done" => pool_result.status = "ok"
        /\ EmptyHistory =>
               /\ EstimatedFrom24h
               /\ Metrics.tvl_15_days_ago = Metrics.tvl_current

\* the upstream holds snapshots of the last 30 days for a v3 pool, the
\* history endpoint failed, and the metrics are the 24h estimates
C14_Witness ==
    /\ FoundV3
    /\ PoolReturned
    /\ V3Snapshots(upstream.store, clock, HistoryDays, "ok") # <<>>
    /\ snapshots = <<>>
    /\ Metrics.volume_15_days = Float(30000)
    /\ Metrics.fees_15_days = Float(300)

(***************************************************************************)
(* C15. A single-pool POST /report request whose pool no upstream path     *)
(* can locate ends with HTTP 502 (the typed upstream error), never with    *)
(* HTTP 500.                                                               *)
(***************************************************************************)
NotLocatable ==
    GetCurrentPoolData(settings.gql_endpoint,
                       [pool_address |-> request.pool_addresses[1], blockchain |-> None],
                       upstream.v2, upstream.v3, upstream.raw) = None

C15_TypedUpstreamError ==
    (pc = "responded" /\ Len(request.pool_addresses) = 1 /\ NotLocatable) =>
        /\ response = Some(502)
        /\ response # Some(500)

C17_EstimatedMarker ==
    pc = "formatted" =>
        /\ metrics_data[1].is_v3_estimated <=> snapshots = <<>>
        /\ metrics_data[1].volume_15d.suffix = " (est.)" <=> snapshots = <<>>
        /\ metrics_data[1].fees_15d.suffix = " (est.)" <=> snapshots = <<>>

(***************************************************************************)
(* C18. Pool addresses are case-insensitive and canonicalised to lower     *)
(* case: for an address that differs from the requested one only in letter *)
(* case, calculate_pool_metrics sends the same query variables and returns *)
(* the same PoolMetrics, whose pool_address and pool_url carry the         *)
(* lower-case form of the address.                                         *)
(***************************************************************************)
SameButCase == {a \in {"0xAB", "0xab", "0xCD"} : Lower(a) = Lower(request.pool_address)}

C18_CaseInsensitive ==
    (pc = "twice" /\ pool_result.status = "ok") =>
        /\ pool_result.metrics[1].pool_address = Lower(request.pool_address)
        /\ pool_result.metrics[1].pool_url[4] = Lower(request.pool_address)
        /\ \A other \in SameButCase :
               /\ \A answer \in QueryOutcomes :
                      /\ V2PoolQuery(other, answer) = V2PoolQuery(request.pool_address, answer)
                      /\ V3PoolQuery(other, request.blockchain, answer)
                            = V3PoolQuery(request.pool_address, request.blockchain, answer)
               /\ CalculatePoolMetrics(settings.gql_endpoint,
                                       [request EXCEPT !.pool_address = other],
                                       upstream, clock) = pool_result

(***************************************************************************)
(* C19. tvl_change_percent is (tvl_current - tvl_15_days_ago) /            *)
(* tvl_15_days_ago * 100 when the baseline TVL is > 0 and the fetched      *)
(* history is not empty, and 0 in every other case; with an empty history  *)
(* tvl_change_percent, volume_change_percent and fees_change_percent are   *)
(* all 0.                                                                  *)
(***************************************************************************)
C19_TvlChangePercent ==
    PoolReturned =>
        /\ IF RPos(Metrics.tvl_15_days_ago) /\ snapshots # <<>>
           THEN Metrics.tvl_change_percent =
                    RMul(RDiv(RSub(Metrics.tvl_current, Metrics.tvl_15_days_ago),
                              Metrics.tvl_15_days_ago),
                         Float(100))
           ELSE Metrics.tvl_change_percent = Zero
        /\ snapshots = <<>> =>
               /\ Metrics.tvl_change_percent = Zero
               /\ Metrics.volume_change_percent = Zero
               /\ Metrics.fees_change_percent = Zero

\* the TVL doubled against a baseline of 500,000, and the volume counter
\* grew as well
C19_Witness ==
    /\ PoolReturned
    /\ snapshots # <<>>
    /\ Metrics.tvl_current = Float(1000000)
    /\ Metrics.tvl_15_days_ago = Float(500000)
    /\ Metrics.tvl_change_percent = Float(100)
    /\ RPos(Metrics.volume_change_percent)

(***************************************************************************)
(* C20. As claimed: _calculate_period_metrics takes as latest the snapshot *)
(* with the greatest timestamp among those at or after the window start,   *)
(* as baseline the snapshot with the greatest timestamp before the window  *)
(* start, or the earliest in-window snapshot when there is none; it        *)
(* returns max(0, latest - baseline) for volume and for fees, whatever the *)
(* order of the input list, and (0, 0) when no snapshot is in the window.  *)
(* Every reordering of a list is a sequence of exchanges of neighbours, so *)
(* order independence over all lists is independence of such an exchange.  *)
(***************************************************************************)
InWindow == {i \in 1..Len(snapshots) : snapshots[i].timestamp >= fifteen_days_ago_ts}
BeforeWindow == {i \in 1..Len(snapshots) : snapshots[i].timestamp < fifteen_days_ago_ts}
Newest(S) == {i \in S : \A j \in S : snapshots[j].timestamp <= snapshots[i].timestamp}
Oldest(S) == {i \in S : \A j \in S : snapshots[i].timestamp <= snapshots[j].timestamp}
First(S) == CHOOSE i \in S : \A j \in S : i <= j
Last(S) == CHOOSE i \in S : \A j \in S : j <= i

Clamped(latest, base) == IF latest > base THEN Float(latest - base) ELSE Zero
DeltaOf(i, j) ==
    [volume |-> Clamped(snapshots[i].swapVolume, snapshots[j].swapVolume),
     fees |-> Clamped(snapshots[i].swapFees, snapshots[j].swapFees)]

Exchanged(s, i) ==
    [k \in 1..Len(s) |-> IF k = i THEN s[i + 1] ELSE IF k = i + 1 THEN s[i] ELSE s[k]]

OrderIndependent ==
    \A i \in 1..(Len(snapshots) - 1) :
        CalculatePeriodMetrics(Exchanged(snapshots, i), fifteen_days_ago_ts) = period_result[1]

C20_AsClaimed ==
    (pc = "done" /\ period_result # None) =>
        /\ InWindow = {} => period_result[1] = [volume |-> Zero, fees |-> Zero]
        /\ InWindow # {} =>
              \E i \in Newest(InWindow) :
                  \E j \in (IF BeforeWindow # {} THEN Newest(BeforeWindow)
                                                 ELSE Oldest(InWindow)) :
                      period_result[1] = DeltaOf(i, j)
        /\ OrderIndependent

(***************************************************************************)
(* C20, amended.  The selection is as claimed; among snapshots with the    *)
(* same timestamp the latest is the last of them in the list and the       *)
(* baseline the first of them.  The result does not depend on the order of *)
(* the input list when the timestamps of the snapshots are pairwise        *)
(* distinct.                                                               *)
(***************************************************************************)
DistinctTimestamps ==
    \A i, j \in 1..Len(snapshots) : i # j => snapshots[i].timestamp # snapshots[j].timestamp

C20_PeriodMetrics ==
    (pc = "done" /\ period_result # None) =>
        /\ InWindow = {} => period_result[1] = [volume |-> Zero, fees |-> Zero]
        /\ InWindow # {} =>
              period_result[1] =
                  DeltaOf(Last(Newest(InWindow)),
                          IF BeforeWindow # {} THEN First(Newest(BeforeWindow))
                                               ELSE First(Oldest(InWindow)))
        /\ DistinctTimestamps => OrderIndependent

\* three snapshots with distinct timestamps given newest first: the
\* baseline is the one just before the window, and the result is that of
\* the sorted list
C20_Witness ==
    /\ pc = "done"
    /\ period_result # None
    /\ Len(snapshots) = 3
    /\ DistinctTimestamps
    /\ snapshots[1].timestamp > snapshots[2].timestamp
    /\ snapshots[2].timestamp > snapshots[3].timestamp
    /\ BeforeWindow # {}
    /\ Cardinality(InWindow) = 2
    /\ period_result[1].volume = Float(40000)
    /\ period_result[1] = CalculatePeriodMetrics(SortByTimestamp(snapshots), fifteen_days_ago_ts)

(***************************************************************************)
(* C21. apr_current is resolved in the order (a) dynamicData.totalApr,     *)
(* (b) the sum of all APR items, (c) a scalar apr field, (d) the           *)
(* fee-implied APR (fees_15_days / 15 * 365) / tvl_current when TVL and    *)
(* period fees are positive: it is the value of the first stage that       *)
(* yields a value that is neither null nor zero, and the value of stage    *)
(* (b) is the sum of all items, never the value of one of several items.   *)
(***************************************************************************)
DynamicData == current_pool[1].dynamicData

StageAggregate ==
    IF "totalApr" \in DOMAIN DynamicData THEN Some(DynamicData.totalApr) ELSE None

StageItemSum ==
    IF DynamicData.aprItems # <<>> THEN Some(SumApr(DynamicData.aprItems)) ELSE None

StageScalar ==
    IF "apr" \in DOMAIN DynamicData /\ DynamicData.apr # Zero THEN Some(DynamicData.apr)
    ELSE IF "totalShares" \in DOMAIN current_pool[1] /\ "apr" \in DOMAIN current_pool[1]
    THEN Some(current_pool[1].apr)
    ELSE IF "apr" \in DOMAIN DynamicData THEN Some(DynamicData.apr)
    ELSE None

StageFeeImplied ==
    IF RPos(Metrics.tvl_current) /\ RPos(Metrics.fees_15_days)
    THEN Some(RDiv(RMul(RDiv(Metrics.fees_15_days, Float(15)), Float(365)),
                   Metrics.tvl_current))
    ELSE None

AprStages == <<StageAggregate, StageItemSum, StageScalar, StageFeeImplied>>

Yields(stage) == stage # None /\ stage[1] # Zero

C21_AprResolution ==
    PoolReturned =>
        \A k \in 1..Len(AprStages) :
            (Yields(AprStages[k]) /\ \A j \in 1..(k - 1) : ~Yields(AprStages[j]))
                => Metrics.apr_current = AprStages[k]

(***************************************************************************)
(* C22. In every PoolMetrics returned by calculate_pool_metrics,           *)
(* token_weights is set only for a pool of type Weighted and boosted_apr   *)
(* only for a pool of type Boosted, and surge_fees, surge_fees_15d_ago,    *)
(* rebalance_count_15d and boosted_apr_15d_ago are null (not zero),        *)
(* whatever the pool type and the payload.                                 *)
(***************************************************************************)
C22_OptionalFields ==
    PoolReturned =>
        /\ Metrics.token_weights # None => Metrics.pool_type = "Weighted"
        /\ Metrics.boosted_apr # None => Metrics.pool_type = "Boosted"
        /\ Metrics.surge_fees = None
        /\ Metrics.surge_fees_15d_ago = None
        /\ Metrics.rebalance_count_15d = None
        /\ Metrics.boosted_apr_15d_ago = None

\* a Weighted pool with a hook and weights given as fractions: the weights
\* are reported as percentages and the surge fees stay null
C22_Witness ==
    /\ PoolReturned
    /\ HasHook(current_pool[1])
    /\ Metrics.pool_type = "Weighted"
    /\ Metrics.token_weights = Some([symbol \in {"WETH", "BAL"} |->
                                        IF symbol = "WETH" THEN Float(80) ELSE Float(20)])
    /\ Metrics.boosted_apr = None
    /\ Metrics.surge_fees = None

(***************************************************************************)
(* C23. Whatever order the history endpoint returns its buckets in, the    *)
(* snapshots returned by get_v3_pool_snapshots have swapVolume and         *)
(* swapFees non-decreasing with timestamp: a snapshot with a later         *)
(* timestamp never carries a smaller cumulative counter.                   *)
(***************************************************************************)
C23_CumulativeMonotone ==
    pc = "fetched" =>
        \A i, j \in 1..Len(snapshots) :
            snapshots[i].timestamp < snapshots[j].timestamp =>
                /\ snapshots[i].swapVolume <= snapshots[j].swapVolume
                /\ snapshots[i].swapFees <= snapshots[j].swapFees

(***************************************************************************)
(* C24. calculate_multi_pool_metrics handles the pools one after another   *)
(* in input order: at most one pool's pipeline is in flight at any time,   *)
(* and no upstream query for a pool is issued before the pipeline of every *)
(* pool before it in the input has ended (returned a PoolMetrics or        *)
(* failed).                                                                *)
(***************************************************************************)
InFlight == {i \in 1..Len(attempts) : attempts[i] \in Stages}

QueryAddress(query) == IF query.query = "poolSnapshots" THEN query.id[1] ELSE query.id

QueryPosition(query) ==
    CHOOSE i \in 1..Len(pool_addresses) : Lower(pool_addresses[i]) = QueryAddress(query)

C24_OneAtATime ==
    /\ Cardinality(InFlight) <= 1
    /\ \A k \in 1..Len(pool_queries) :
           LET position == QueryPosition(pool_queries[k])
           IN  /\ position <= Len(attempts)
               /\ \A earlier \in 1..(position - 1) : attempts[earlier] \notin Stages
               /\ pool_queries[k].response = "pending" =>
                      /\ k = Len(pool_queries)
                      /\ attempts[position] \in Stages
               /\ k < Len(pool_queries) =>
                      position <= QueryPosition(pool_queries[k + 1])

\* the first pool was calculated from three answered queries, and the
\* second pool is suspended in its history query
C24_Witness ==
    /\ pc = "loop"
    /\ attempts = <<"ok", "history">>
    /\ Len(pools_metrics) = 1
    /\ Len(pool_queries) = 5
    /\ \A k \in 1..3 : /\ QueryPosition(pool_queries[k]) = 1
                       /\ pool_queries[k].response # "pending"
    /\ QueryPosition(pool_queries[5]) = 2
    /\ pool_queries[5].response = "pending"

(***************************************************************************)
(* C25. A cancellation that reaches calculate_multi_pool_metrics while it  *)
(* is suspended in an upstream query is not absorbed as the failure of a   *)
(* pool: the query that was cancelled is the last one issued, the call     *)
(* ends with CancelledError and returns no MultiPoolMetrics.               *)
(***************************************************************************)
C25_CancellationPropagates ==
    /\ \A k \in 1..Len(pool_queries) :
           pool_queries[k].response = "cancelled" =>
               /\ k = Len(pool_queries)
               /\ pc = "cancelled"
               /\ attempts[QueryPosition(pool_queries[k])] = "CancelledError"
    /\ pc = "cancelled" =>
           /\ multi_result = Failed("CancelledError")
           /\ pool_queries # <<>>
           /\ pool_queries[Len(pool_queries)].response = "cancelled"
           /\ InFlight = {}
    /\ multi_result.status = "ok" =>
           \A i \in 1..Len(attempts) : attempts[i] # "CancelledError"

\* cancelled in the second query of the first pool, its history query: the
\* second pool is never started
C25_Witness ==
    /\ pc = "cancelled"
    /\ Len(pool_addresses) = 2
    /\ attempts = <<"CancelledError">>
    /\ Len(pool_queries) = 2
    /\ pool_queries[2].query = "poolGetSnapshots"
    /\ pool_queries[2].response = "cancelled"
    /\ multi_result.status = "CancelledError"

BaselineSnapshot == IF snapshot_15d_ago # None THEN snapshot_15d_ago[1] ELSE snapshots[1]

C27_ChangeNonNegative ==
    PoolReturned =>
        /\ Metrics.volume_change_percent.num >= 0
        /\ Metrics.fees_change_percent.num >= 0
        /\ snapshots # <<>> =>
               /\ snapshots[Len(snapshots)].swapVolume <= BaselineSnapshot.swapVolume
                      => Metrics.volume_change_percent = Zero
               /\ snapshots[Len(snapshots)].swapFees <= BaselineSnapshot.swapFees
                      => Metrics.fees_change_percent = Zero

\* the volume counter of the last snapshot is below that of the baseline,
\* which is positive, and the period volume is positive
C27_Witness ==
    /\ PoolReturned
    /\ snapshots # <<>>
    /\ BaselineSnapshot.swapVolume > 0
    /\ snapshots[Len(snapshots)].swapVolume < BaselineSnapshot.swapVolume
    /\ RPos(Metrics.volume_15_days)
    /\ Metrics.volume_change_percent = Zero

(***************************************************************************)
(* C28. For a v2 pool whose fetched history is empty, tvl_15_days_ago,     *)
(* volume_15_days and fees_15_days are 0 and apr_current is null; for      *)
(* every v2 pool apr_current is set only when tvl_current > 0 and          *)
(* fees_15_days > 0, and is then the fee-implied APR.                      *)
(***************************************************************************)
FoundV2 == current_pool # None /\ current_pool[1].api_version = "v2"

C28_V2Estimates ==
    (PoolReturned /\ FoundV2) =>
        /\ snapshots = <<>> =>
               /\ Metrics.tvl_15_days_ago = Zero
               /\ Metrics.volume_15_days = Zero
               /\ Metrics.fees_15_days = Zero
               /\ Metrics.apr_current = None
        /\ Metrics.apr_current # None =>
               /\ RPos(Metrics.tvl_current)
               /\ RPos(Metrics.fees_15_days)
               /\ Metrics.apr_current =
                      Some(RDiv(RMul(RDiv(Metrics.fees_15_days, Float(15)), Float(365)),
                                Metrics.tvl_current))

\* a v2 pool with TVL 1,000,000 whose payload reports 24h fees of 20 and
\* whose history is empty
C28_Witness ==
    /\ PoolReturned
    /\ FoundV2
    /\ snapshots = <<>>
    /\ upstream.raw.fees24h = 20
    /\ Metrics.tvl_current = Float(1000000)
    /\ Metrics.tvl_15_days_ago = Zero
    /\ Metrics.fees_15_days = Zero
    /\ Metrics.apr_current = None

(***************************************************************************)
(* C29. A failed history query is treated differently by schema version.   *)
(* For a v2 pool a failure of the subgraph poolSnapshots query ends the    *)
(* pool's calculate_pool_metrics with BalancerAPIError and the pool is     *)
(* left out of the batch: a v2 pool is calculated only from poolSnapshots  *)
(* queries that were answered successfully (possibly with no snapshot).    *)
(* A failed poolGetSnapshots query of a v3 pool never fails the pool.      *)
(***************************************************************************)
QueriesOf(position) ==
    {k \in 1..Len(pool_queries) : QueryPosition(pool_queries[k]) = position}

C29_V2HistoryFailurePropagates ==
    /\ \A k \in 1..Len(pool_queries) :
           LET query == pool_queries[k]
               position == QueryPosition(query)
           IN  /\ (query.query = "poolSnapshots" /\ query.response = "error") =>
                      /\ attempts[position] = "BalancerAPIError"
                      /\ \A later \in QueriesOf(position) : later <= k
               /\ (query.query = "poolGetSnapshots" /\ query.response = "error") =>
                      attempts[position] # "BalancerAPIError"
    /\ Len(pools_metrics) = Cardinality({i \in 1..Len(attempts) : attempts[i] = "ok"})
    /\ \A i \in 1..Len(attempts) :
           attempts[i] = "ok" =>
               \A k \in QueriesOf(i) :
                   pool_queries[k].query = "poolSnapshots" => pool_queries[k].response = "ok"

\* the history query of the first of two v2 pools failed, the second pool
\* was calculated: the batch result holds one pool
C29_Witness ==
    /\ pc = "done"
    /\ attempts = <<"BalancerAPIError", "ok">>
    /\ \E k \in QueriesOf(1) : /\ pool_queries[k].query = "poolSnapshots"
                               /\ pool_queries[k].response = "error"
    /\ \E k \in QueriesOf(2) : pool_queries[k].query = "poolSnapshots"
    /\ multi_result.status = "ok"
    /\ Len(pools_metrics) = 1
    /\ pools_metrics[1].pool_address = pool_addresses[2]

(***************************************************************************)
(* C30. The keys of custom_rankings of every MultiPoolMetrics are among    *)
(* the requested ranking_by names that are swap_fee or boosted_apr.  The   *)
(* key rebalance_count never appears, because no pool has a rebalance      *)
(* count; boosted_apr appears only when some pool has a boosted_apr; and   *)
(* the result is the same whether or not volume and tvl_growth are among   *)
(* the requested names.                                                    *)
(***************************************************************************)
C30_CustomRankingKeys ==
    MultiReturned =>
        /\ DOMAIN Result.custom_rankings
               \subseteq (Requested(ranking_by) \cap {"swap_fee", "boosted_apr"})
        /\ "rebalance_count" \notin DOMAIN Result.custom_rankings
        /\ \A i \in 1..Len(pools_metrics) : pools_metrics[i].rebalance_count_15d = None
        /\ "boosted_apr" \in DOMAIN Result.custom_rankings =>
               \E i \in 1..Len(pools_metrics) : pools_metrics[i].boosted_apr # None
        /\ Result = Aggregate(pools_metrics, Requested(ranking_by) \ {"volume", "tvl_growth"})
        /\ Result = Aggregate(pools_metrics, Requested(ranking_by) \cup {"volume", "tvl_growth"})

\* every ranking is requested for a batch holding a Boosted pool with a
\* boosted_apr: swap_fee and boosted_apr are the keys
C30_Witness ==
    /\ MultiReturned
    /\ ranking_by = Some(RankingMetrics)
    /\ \E i \in 1..Len(pools_metrics) :
           /\ pools_metrics[i].pool_type = "Boosted"
           /\ pools_metrics[i].boosted_apr # None
    /\ DOMAIN Result.custom_rankings = {"swap_fee", "boosted_apr"}

====
